---- MODULE Spec2Model ----
(***************************************************************************)
(* Post matching and deduplication engine of practice_parsing.             *)
(*                                                                         *)
(*   parsers/content_comporator_bert.py  PostMatcher (semantic path)       *)
(*   parsers/content_comparator.py       n-gram / IDF matcher (lexical)    *)
(*                                                                         *)
(* Text is a sequence of one-character strings.  A cosine similarity is an *)
(* integer number of hundredths (0.65 is 65); an IDF weight and a lexical  *)
(* score are integer numbers of thousandths (60 is 60000).                 *)
(***************************************************************************)
EXTENDS Integers, Sequences, FiniteSets, TLC

VARIABLES
    \* ---- semantic path: PostMatcher.match_all_posts ----
    cos,                 \* cosine similarity of the embedding provider's vectors
    in_habr,             \* the caller's three lists, as passed
    in_telegram,
    in_pikabu,
    habr_posts,          \* the locals of match_all_posts
    telegram_posts,
    pikabu_posts,
    habr_embeddings,
    telegram_embeddings,
    pikabu_embeddings,
    matched_habr,
    unmatched_habr,
    used_telegram,
    used_pikabu,
    unmatched_telegram,
    unmatched_pikabu,
    hi,                  \* position of the loop of line 151
    ma_pc,
    saved,               \* what start handed to DataStorage.save_to_excel
    provider_failed,     \* the embedding provider raised in this run
    encode_requests,     \* the posts whose text was handed to model.encode, in order
    \* ---- semantic path: PostMatcher.remove_duplicates, step by step ----
    posts,
    embeddings,
    filtered_posts,
    seen,
    di,                  \* position of the loop of line 89
    rd_pc,
    rd_run,              \* 1: first application, 2: applied to its own output
    rd_first,            \* what the first application returned
    \* ---- lexical path: compute_tfidf_weights ----
    documents,
    ngram_document_frequency,
    doc_i,               \* position of the loop of line 65
    idf_weights,         \* inverse_document_frequency_weights, once returned
    tf_pc,
    \* ---- lexical path: find_similar_posts / find_matching_posts ----
    lex_habr_posts,      \* habr_posts of content_comparator.py
    lex_telegram_posts,  \* telegram_posts of content_comparator.py
    tfidf_weights,
    habr_ngram_index,
    habr_post_to_best_match,
    tpi,                 \* position of the loop of line 124
    threshold_tests,     \* every evaluation of the test of line 156
    unique_matches,
    fm_pc,
    \* ---- single calls of the text functions and of the pair score ----
    pure_args,           \* the arguments of the calls
    pure_results,        \* what each call returned or raised, once made
    \* ---- storage: DataStorage.save_as_json / read_json ----
    data_dir,            \* the files of DATA_DIR: file name -> content
    storage_result,      \* the last call: operation, label, outcome
    \* ---- TelegramChannelParser.get_posts_from_channel ----
    tg_history,          \* the number of messages of the channel, ids 1 .. tg_history
    tg_limit,            \* the arguments limit and total_limit
    tg_total_limit,
    offset_id,
    total_count_of_messages,
    tg_posts,            \* self.posts, as the ids of the messages
    tg_pc,
    \* ---- main: the two scraping tasks and the hand-over to start ----
    main_pc,
    habr_pc,             \* the task of HabrParser.start
    html_pages,          \* what the requests of get_articles returned
    articles             \* self.articles of the HabrParser

semVars == <<cos, in_habr, in_telegram, in_pikabu, habr_posts, telegram_posts,
             pikabu_posts, habr_embeddings, telegram_embeddings,
             pikabu_embeddings, matched_habr, unmatched_habr, used_telegram,
             used_pikabu, unmatched_telegram, unmatched_pikabu, hi, ma_pc, saved,
             provider_failed, encode_requests>>

rdVars == <<posts, embeddings, filtered_posts, seen, di, rd_pc, rd_run, rd_first>>

tfVars == <<documents, ngram_document_frequency, doc_i, idf_weights, tf_pc>>

fmVars == <<lex_habr_posts, lex_telegram_posts, tfidf_weights, habr_ngram_index,
            habr_post_to_best_match, tpi, threshold_tests, unique_matches, fm_pc>>

pureVars == <<pure_args, pure_results>>

stVars == <<data_dir, storage_result>>

tgVars == <<tg_history, tg_limit, tg_total_limit, offset_id, total_count_of_messages,
            tg_posts, tg_pc>>

mainVars == <<main_pc, habr_pc, html_pages, articles>>

ioVars == <<stVars, tgVars, mainVars>>

vars == <<semVars, rdVars, tfVars, fmVars, pureVars, ioVars>>

(***************************************************************************)
(* Bounds of the model.                                                    *)
(***************************************************************************)
MaxPosts == 3        \* posts handed to one run of match_all_posts, all lists together
MaxDedup == 3        \* posts handed to one call of remove_duplicates
MaxDocs == 3         \* documents handed to one call of compute_tfidf_weights
MaxLexPosts == 3     \* posts handed to one call of find_similar_posts, both lists together
LongLen == 70        \* words of the long text
MaxMalformed == 2    \* records of each list where records may lack fields
MaxRivals == 2       \* posts of each list where Habr posts compete for Telegram posts
MaxHistory == 6      \* messages in the Telegram channel
MaxBatch == 3        \* the argument limit of get_posts_from_channel
MaxTotal == 4        \* the argument total_limit of get_posts_from_channel

(***************************************************************************)
(* Generic helpers.                                                        *)
(***************************************************************************)
SeqsUpTo(S, n) == UNION {[1..k -> S] : k \in 0..n}

SeqsOfLen(S, n) == [1..n -> S]

Range(s) == {s[k] : k \in 1..Len(s)}

Max2(a, b) == IF a >= b THEN a ELSE b

Min2(a, b) == IF a <= b THEN a ELSE b

(***************************************************************************)
(* Characters and the text normaliser of the semantic path.                *)
(***************************************************************************)
Whitespace == {" ", "\t"}

LowerChar(c) ==
    CASE c = "A" -> "a"
      [] c = "B" -> "b"
      [] c = "C" -> "c"
      [] c = "X" -> "x"
      [] c = "Y" -> "y"
      [] c = "Z" -> "z"
      [] OTHER -> c

Lower(s) == [k \in 1..Len(s) |-> LowerChar(s[k])]

Positions(s) == [k \in 1..Len(s) |-> k]

\* re.sub(r'\s+', ' ', text): every run of whitespace becomes one space
CollapseWs(s) ==
    LET StartsRunOrIsText(k) == s[k] \notin Whitespace \/ k = 1 \/ s[k - 1] \notin Whitespace
        kept == SelectSeq(Positions(s), StartsRunOrIsText)
    IN  [k \in 1..Len(kept) |-> IF s[kept[k]] \in Whitespace THEN " " ELSE s[kept[k]]]

\* str.strip()
Strip(s) ==
    LET IsText(k) == s[k] \notin Whitespace
        text == SelectSeq(Positions(s), IsText)
    IN  IF text = <<>> THEN <<>> ELSE SubSeq(s, text[1], text[Len(text)])

normalize_text(text) == Lower(Strip(CollapseWs(text)))

(***************************************************************************)
(* Embedding provider (external).  A vector is identified with the         *)
(* normalised text it encodes; cos gives the similarity of two vectors.    *)
(***************************************************************************)
RawContents == { <<"x">>, <<" ", "Y", "\t">>, <<"z">> }

Vectors == {normalize_text(c) : c \in RawContents}

VectorPairs == {{u, v} : u, v \in Vectors} \ {{u} : u \in Vectors}

Scores == {50, 65, 80, 95}

get_embeddings_for_posts(ps) == [k \in 1..Len(ps) |-> normalize_text(ps[k].content)]

cosine_similarity(u, v) == IF u = v THEN 100 ELSE cos[{u, v}]

threshold_duplicate == 90
threshold_match == 65

(***************************************************************************)
(* Posts.  views is Optional[int]: <<>> is None, <<n>> is n.               *)
(***************************************************************************)
ViewsValues == {<<>>, <<5>>, <<10>>, <<50>>}

HasViews(p) == "views" \in DOMAIN p

ViewsOrZero(p) == IF p.views = <<>> THEN 0 ELSE p.views[1]

\* lists of n posts as the scrapers deliver them: ids and titles are unique
TelegramLists(n, views) ==
    {[k \in 1..n |-> [id |-> k, content |-> cs[k].c, views |-> cs[k].v]] :
        cs \in SeqsOfLen([c : RawContents, v : views], n)}

HabrLists(n) ==
    {[k \in 1..n |-> [title |-> k, content |-> cs[k]]] :
        cs \in SeqsOfLen(RawContents, n)}

PikabuLists(n) ==
    {[k \in 1..n |-> [id |-> k, title |-> k, content |-> cs[k]]] :
        cs \in SeqsOfLen(RawContents, n)}

(***************************************************************************)
(* PostMatcher.remove_duplicates                                           *)
(***************************************************************************)
\* ScanLater with >= in line 102: on equal views the later post wins
RECURSIVE ScanLaterTiesToLater(_, _, _, _, _)
ScanLaterTiesToLater(ps, embs, i, j, st) ==
    IF j > Len(ps) THEN st
    ELSE IF j \in st.seen THEN ScanLaterTiesToLater(ps, embs, i, j + 1, st)
    ELSE IF cosine_similarity(embs[i], embs[j]) > threshold_duplicate
         THEN ScanLaterTiesToLater(ps, embs, i, j + 1,
                [best |-> IF /\ HasViews(ps[j])
                             /\ HasViews(ps[st.best])
                             /\ ViewsOrZero(ps[j]) >= ViewsOrZero(ps[st.best])
                          THEN j ELSE st.best,
                 seen |-> st.seen \cup {j}])
         ELSE ScanLaterTiesToLater(ps, embs, i, j + 1, st)

\* ScanLater without the test of lines 93-94: a post already seen is compared again
RECURSIVE ScanLaterRescanningSeen(_, _, _, _, _)
ScanLaterRescanningSeen(ps, embs, i, j, st) ==
    IF j > Len(ps) THEN st
    ELSE IF cosine_similarity(embs[i], embs[j]) > threshold_duplicate
         THEN ScanLaterRescanningSeen(ps, embs, i, j + 1,
                [best |-> IF /\ HasViews(ps[j])
                             /\ HasViews(ps[st.best])
                             /\ ViewsOrZero(ps[j]) > ViewsOrZero(ps[st.best])
                          THEN j ELSE st.best,
                 seen |-> st.seen \cup {j}])
         ELSE ScanLaterRescanningSeen(ps, embs, i, j + 1, st)

\* lines 93-104: the scan of the later posts j for the anchor i; the state is
\* [best |-> best_idx, seen |-> seen]
RECURSIVE ScanLater(_, _, _, _, _)
ScanLater(ps, embs, i, j, st) ==
    IF j > Len(ps) THEN st
    ELSE IF j \in st.seen THEN ScanLater(ps, embs, i, j + 1, st)
    ELSE IF cosine_similarity(embs[i], embs[j]) > threshold_duplicate
         THEN ScanLater(ps, embs, i, j + 1,
                [best |-> IF /\ HasViews(ps[j])
                             /\ HasViews(ps[st.best])
                             /\ ViewsOrZero(ps[j]) > ViewsOrZero(ps[st.best])
                          THEN j ELSE st.best,
                 seen |-> st.seen \cup {j}])
         ELSE ScanLater(ps, embs, i, j + 1, st)

\* DedupIteration putting the representative in front of filtered_posts
DedupIterationPrepending(ps, embs, i, st) ==
    IF i \in st.seen THEN st
    ELSE LET r == ScanLater(ps, embs, i, i + 1, [best |-> i, seen |-> st.seen])
         IN  IF r.best < Len(ps) + 1
             THEN [filtered |-> <<ps[r.best]>> \o st.filtered,
                   seen |-> r.seen \cup {r.best}]
             ELSE [filtered |-> st.filtered, seen |-> r.seen]

\* lines 89-109: one iteration of the outer loop; st is
\* [filtered |-> filtered_posts, seen |-> seen]
DedupIteration(ps, embs, i, st) ==
    IF i \in st.seen THEN st
    ELSE LET r == ScanLater(ps, embs, i, i + 1, [best |-> i, seen |-> st.seen])
         IN  IF r.best < Len(ps) + 1
             THEN [filtered |-> Append(st.filtered, ps[r.best]),
                   seen |-> r.seen \cup {r.best}]
             ELSE [filtered |-> st.filtered, seen |-> r.seen]

RECURSIVE DedupFrom(_, _, _, _)
DedupFrom(ps, embs, i, st) ==
    IF i > Len(ps) THEN st
    ELSE DedupFrom(ps, embs, i + 1, DedupIteration(ps, embs, i, st))

remove_duplicates(ps) ==
    DedupFrom(ps, get_embeddings_for_posts(ps), 1,
              [filtered |-> <<>>, seen |-> {}]).filtered

(***************************************************************************)
(* PostMatcher.match_all_posts                                             *)
(***************************************************************************)
NoBest == [found |-> FALSE, score |-> 0, index |-> 0]

\* BestCounterpart with >= for > in line 161 (173): on equal scores the later post wins
RECURSIVE BestCounterpartTiesToLater(_, _, _, _, _)
BestCounterpartTiesToLater(habr_emb, embs, used, j, st) ==
    IF j > Len(embs) THEN st
    ELSE IF j \in used THEN BestCounterpartTiesToLater(habr_emb, embs, used, j + 1, st)
    ELSE LET score == cosine_similarity(habr_emb, embs[j])
         IN  IF score >= st.score /\ score >= threshold_match
             THEN BestCounterpartTiesToLater(habr_emb, embs, used, j + 1,
                                  [found |-> TRUE, score |-> score, index |-> j])
             ELSE BestCounterpartTiesToLater(habr_emb, embs, used, j + 1, st)

\* BestCounterpart without the test of line 158 (170): a used post is scanned again
RECURSIVE BestCounterpartIgnoringUsed(_, _, _, _, _)
BestCounterpartIgnoringUsed(habr_emb, embs, used, j, st) ==
    IF j > Len(embs) THEN st
    ELSE LET score == cosine_similarity(habr_emb, embs[j])
         IN  IF score > st.score /\ score >= threshold_match
             THEN BestCounterpartIgnoringUsed(habr_emb, embs, used, j + 1,
                                  [found |-> TRUE, score |-> score, index |-> j])
             ELSE BestCounterpartIgnoringUsed(habr_emb, embs, used, j + 1, st)

\* lines 155-164 (and 167-176): the best not yet used counterpart for one
\* Habr embedding; st is [found, score, index] (best_*, best_*_score,
\* best_*_index)
RECURSIVE BestCounterpart(_, _, _, _, _)
BestCounterpart(habr_emb, embs, used, j, st) ==
    IF j > Len(embs) THEN st
    ELSE IF j \in used THEN BestCounterpart(habr_emb, embs, used, j + 1, st)
    ELSE LET score == cosine_similarity(habr_emb, embs[j])
         IN  IF score > st.score /\ score >= threshold_match
             THEN BestCounterpart(habr_emb, embs, used, j + 1,
                                  [found |-> TRUE, score |-> score, index |-> j])
             ELSE BestCounterpart(habr_emb, embs, used, j + 1, st)

\* lines 179-192: the record appended to matched_habr (an absent side is <<>>)
MatchedRecord(i, bt, bp) ==
    [habr |-> habr_posts[i],
     telegram |-> IF bt.found THEN <<telegram_posts[bt.index]>> ELSE <<>>,
     telegram_index |-> IF bt.found THEN bt.index ELSE 0,
     telegram_similarity |-> IF bt.found THEN bt.score ELSE 0,
     pikabu |-> IF bp.found THEN <<pikabu_posts[bp.index]>> ELSE <<>>,
     pikabu_index |-> IF bp.found THEN bp.index ELSE 0,
     pikabu_similarity |-> IF bp.found THEN bp.score ELSE 0]

\* HasCounterpart with "and" for "or" in line 178
HasBothCounterparts(bt, bp) == bt.found /\ bp.found

\* line 178: if best_telegram or best_pikabu (a post object is truthy)
HasCounterpart(bt, bp) == bt.found \/ bp.found

\* AfterEncode with the exception swallowed: the run goes on
AfterEncodeFallingBack(encode_fails, next_pc) == next_pc

\* model.encode (line 66) is external and may raise; lines 56-72, 74-112 and
\* 139-144 have no except clause, so the exception leaves match_all_posts
AfterEncode(encode_fails, next_pc) == IF encode_fails THEN "raised" ELSE next_pc

\* DedupTelegram writing the filtered list into the caller's list
DedupTelegramInPlace ==
    /\ ma_pc = "dedup_telegram"
    /\ telegram_posts' = remove_duplicates(telegram_posts)
    /\ in_telegram' = telegram_posts'
    /\ provider_failed' = FALSE
    /\ encode_requests' = encode_requests \o telegram_posts
    /\ ma_pc' = "dedup_pikabu"
    /\ UNCHANGED <<cos, saved, in_habr, in_pikabu, habr_posts, pikabu_posts,
                   habr_embeddings, telegram_embeddings, pikabu_embeddings,
                   matched_habr, unmatched_habr, used_telegram, used_pikabu,
                   unmatched_telegram, unmatched_pikabu, hi>>
    /\ UNCHANGED <<rdVars, tfVars, fmVars, pureVars, ioVars>>

\* line 139
DedupTelegram ==
    /\ ma_pc = "dedup_telegram"
    /\ \E encode_fails \in BOOLEAN :
          /\ telegram_posts' = IF encode_fails THEN telegram_posts
                                ELSE remove_duplicates(telegram_posts)
          /\ provider_failed' = encode_fails
          /\ ma_pc' = AfterEncode(encode_fails, "dedup_pikabu")
    /\ encode_requests' = encode_requests \o telegram_posts
    /\ UNCHANGED <<cos, saved, in_habr, in_telegram, in_pikabu, habr_posts, pikabu_posts,
                   habr_embeddings, telegram_embeddings, pikabu_embeddings,
                   matched_habr, unmatched_habr, used_telegram, used_pikabu,
                   unmatched_telegram, unmatched_pikabu, hi>>
    /\ UNCHANGED <<rdVars, tfVars, fmVars, pureVars, ioVars>>

\* line 140
DedupPikabu ==
    /\ ma_pc = "dedup_pikabu"
    /\ \E encode_fails \in BOOLEAN :
          /\ pikabu_posts' = IF encode_fails THEN pikabu_posts
                              ELSE remove_duplicates(pikabu_posts)
          /\ provider_failed' = encode_fails
          /\ ma_pc' = AfterEncode(encode_fails, "embed")
    /\ encode_requests' = encode_requests \o pikabu_posts
    /\ UNCHANGED <<cos, saved, in_habr, in_telegram, in_pikabu, habr_posts, telegram_posts,
                   habr_embeddings, telegram_embeddings, pikabu_embeddings,
                   matched_habr, unmatched_habr, used_telegram, used_pikabu,
                   unmatched_telegram, unmatched_pikabu, hi>>
    /\ UNCHANGED <<rdVars, tfVars, fmVars, pureVars, ioVars>>

\* EmbedAll encoding the counterpart lists as they were passed, before
\* remove_duplicates
EmbedAllBeforeDedup ==
    /\ ma_pc = "embed"
    /\ \E failed_call \in 0..3 :
        LET encode_fails == failed_call # 0
        IN
          /\ encode_requests' = encode_requests \o habr_posts
                \o (IF failed_call = 1 THEN <<>> ELSE telegram_posts)
                \o (IF failed_call \in {1, 2} THEN <<>> ELSE pikabu_posts)
          /\ habr_embeddings' = IF encode_fails THEN habr_embeddings
                                 ELSE get_embeddings_for_posts(habr_posts)
          /\ telegram_embeddings' = IF encode_fails THEN telegram_embeddings
                                     ELSE get_embeddings_for_posts(in_telegram)
          /\ pikabu_embeddings' = IF encode_fails THEN pikabu_embeddings
                                   ELSE get_embeddings_for_posts(in_pikabu)
          /\ hi' = IF encode_fails THEN hi ELSE 1
          /\ provider_failed' = encode_fails
          /\ ma_pc' = AfterEncode(encode_fails, "match")
    /\ matched_habr' = <<>>
    /\ unmatched_habr' = <<>>
    /\ used_telegram' = {}
    /\ used_pikabu' = {}
    /\ UNCHANGED <<cos, saved, in_habr, in_telegram, in_pikabu, habr_posts, telegram_posts,
                   pikabu_posts, unmatched_telegram, unmatched_pikabu>>
    /\ UNCHANGED <<rdVars, tfVars, fmVars, pureVars, ioVars>>

\* lines 142-149: three calls of get_embeddings_for_posts, of which one may
\* raise (failed_call; 0 when none does)
EmbedAll ==
    /\ ma_pc = "embed"
    /\ \E failed_call \in 0..3 :
        LET encode_fails == failed_call # 0
        IN
          /\ encode_requests' = encode_requests \o habr_posts
                \o (IF failed_call = 1 THEN <<>> ELSE telegram_posts)
                \o (IF failed_call \in {1, 2} THEN <<>> ELSE pikabu_posts)
          /\ habr_embeddings' = IF encode_fails THEN habr_embeddings
                                 ELSE get_embeddings_for_posts(habr_posts)
          /\ telegram_embeddings' = IF encode_fails THEN telegram_embeddings
                                     ELSE get_embeddings_for_posts(telegram_posts)
          /\ pikabu_embeddings' = IF encode_fails THEN pikabu_embeddings
                                   ELSE get_embeddings_for_posts(pikabu_posts)
          /\ hi' = IF encode_fails THEN hi ELSE 1
          /\ provider_failed' = encode_fails
          /\ ma_pc' = AfterEncode(encode_fails, "match")
    /\ matched_habr' = <<>>
    /\ unmatched_habr' = <<>>
    /\ used_telegram' = {}
    /\ used_pikabu' = {}
    /\ UNCHANGED <<cos, saved, in_habr, in_telegram, in_pikabu, habr_posts, telegram_posts,
                   pikabu_posts, unmatched_telegram, unmatched_pikabu>>
    /\ UNCHANGED <<rdVars, tfVars, fmVars, pureVars, ioVars>>

\* lines 151-198: one iteration of the loop over habr_posts
MatchHabrPost ==
    /\ ma_pc = "match"
    /\ hi <= Len(habr_posts)
    /\ LET bt == BestCounterpart(habr_embeddings[hi], telegram_embeddings,
                                 used_telegram, 1, NoBest)
           bp == BestCounterpart(habr_embeddings[hi], pikabu_embeddings,
                                 used_pikabu, 1, NoBest)
       IN  IF HasCounterpart(bt, bp)
           THEN /\ matched_habr' = Append(matched_habr, MatchedRecord(hi, bt, bp))
                /\ used_telegram' = IF bt.found THEN used_telegram \cup {bt.index}
                                    ELSE used_telegram
                /\ used_pikabu' = IF bp.found THEN used_pikabu \cup {bp.index}
                                  ELSE used_pikabu
                /\ UNCHANGED unmatched_habr
           ELSE /\ unmatched_habr' = Append(unmatched_habr, habr_posts[hi])
                /\ UNCHANGED <<matched_habr, used_telegram, used_pikabu>>
    /\ hi' = hi + 1
    /\ UNCHANGED <<encode_requests, cos, saved, provider_failed, in_habr, in_telegram, in_pikabu, habr_posts, telegram_posts,
                   pikabu_posts, habr_embeddings, telegram_embeddings,
                   pikabu_embeddings, unmatched_telegram, unmatched_pikabu, ma_pc>>
    /\ UNCHANGED <<rdVars, tfVars, fmVars, pureVars, ioVars>>

\* NotUsed without its filter: every post is reported unmatched
NotUsedKeepingAll(ps, used, k) == SubSeq(ps, k, Len(ps))

\* [post for i, post in enumerate(ps) if i not in used]
RECURSIVE NotUsed(_, _, _)
NotUsed(ps, used, k) ==
    IF k > Len(ps) THEN <<>>
    ELSE IF k \in used THEN NotUsed(ps, used, k + 1)
    ELSE <<ps[k]>> \o NotUsed(ps, used, k + 1)

\* lines 200-209
ReturnMatches ==
    /\ ma_pc = "match"
    /\ hi > Len(habr_posts)
    /\ unmatched_telegram' = NotUsed(telegram_posts, used_telegram, 1)
    /\ unmatched_pikabu' = NotUsed(pikabu_posts, used_pikabu, 1)
    /\ ma_pc' = "done"
    /\ UNCHANGED <<encode_requests, cos, saved, provider_failed, in_habr, in_telegram, in_pikabu, habr_posts, telegram_posts,
                   pikabu_posts, habr_embeddings, telegram_embeddings,
                   pikabu_embeddings, matched_habr, unmatched_habr, used_telegram,
                   used_pikabu, hi>>
    /\ UNCHANGED <<rdVars, tfVars, fmVars, pureVars, ioVars>>

(***************************************************************************)
(* Lexical path: text, n-grams (content_comparator.py).                    *)
(***************************************************************************)
\* None, where a text is expected: no text is a one-character string
None == <<"None">>

\* the characters of the model that are neither \w nor \s
Punctuation == {",", "!", "."}

IsWordOrSpace(c) == c \notin Punctuation

\* re.sub(r'[^\w\s]', '', text)
RemovePunctuation(s) == SelectSeq(s, IsWordOrSpace)

preprocess_text(text) ==
    IF text = None \/ text = <<>> THEN <<>>
    ELSE Strip(CollapseWs(RemovePunctuation(Lower(text))))

\* str.split(): the maximal runs of characters that are not whitespace
Split(s) ==
    LET StartsWord(k) == s[k] \notin Whitespace /\ (k = 1 \/ s[k - 1] \in Whitespace)
        EndsWord(k) == s[k] \notin Whitespace /\ (k = Len(s) \/ s[k + 1] \in Whitespace)
        starts == SelectSeq(Positions(s), StartsWord)
        ends == SelectSeq(Positions(s), EndsWord)
    IN  [k \in 1..Len(starts) |-> SubSeq(s, starts[k], ends[k])]

\* ' '.join(words)
RECURSIVE Join(_)
Join(words) ==
    IF words = <<>> THEN <<>>
    ELSE IF Len(words) = 1 THEN words[1]
    ELSE words[1] \o <<" ">> \o Join(Tail(words))

NGRAM_SIZE == 3

STOP_NGRAMS == { <<"s", " ", "s", " ", "s">> }

NotStopNgram(ngram) == ngram \notin STOP_NGRAMS

\* GenerateNgramsRaises with < in line 41
GenerateNgramsRaisesBelowZero(n) == n < 0

\* line 41
GenerateNgramsRaises(n) == n <= 0

\* generate_ngrams with a window at every word, cut short at the end of the text
GenerateNgramsShortWindows(text, n) ==
    LET words == Split(text)
        ngrams == [k \in 1..Len(words) |->
                      Join(SubSeq(words, k, Min2(k + n - 1, Len(words))))]
    IN  SelectSeq(ngrams, NotStopNgram)

\* lines 44-46, for n > 0
generate_ngrams(text, n) ==
    LET words == Split(text)
        ngrams == [k \in 1..(Len(words) - n + 1) |-> Join(SubSeq(words, k, k + n - 1))]
    IN  SelectSeq(ngrams, NotStopNgram)

\* dict.get(key, default)
Get(d, key, default) == IF key \in DOMAIN d THEN d[key] ELSE default

\* a or b, for texts
Or(a, b) == IF a # None /\ a # <<>> THEN a ELSE b

(***************************************************************************)
(* compute_tfidf_weights                                                   *)
(***************************************************************************)
\* round(1000 * ln k), k = 1..8
LnTable == <<0, 693, 1099, 1386, 1609, 1792, 1946, 2079>>

\* log(a / b), in thousandths
Log(a, b) == LnTable[a] - LnTable[b]

\* lines 67-69
DocumentText(document) ==
    Or(Or(Get(document, "content", <<>>), Get(document, "text", <<>>)),
       Get(document, "title", <<>>))

Occurrences(s, x) == Cardinality({k \in 1..Len(s) : s[k] = x})

\* DocumentIncrement over the list of n-grams instead of their set: a gram
\* repeated inside a document is counted once per occurrence
DocumentIncrementPerOccurrence(document) ==
    LET ngrams == generate_ngrams(preprocess_text(DocumentText(document)), NGRAM_SIZE)
    IN  [g \in Range(ngrams) |-> Occurrences(ngrams, g)]

\* lines 72-76: what Counter.update(document_ngrams) adds for one document
DocumentIncrement(document) ==
    LET document_ngrams ==
            Range(generate_ngrams(preprocess_text(DocumentText(document)), NGRAM_SIZE))
    IN  [g \in document_ngrams |-> 1]

\* Counter.update
CounterUpdate(counter, inc) ==
    [g \in DOMAIN counter \cup DOMAIN inc |->
        (IF g \in DOMAIN counter THEN counter[g] ELSE 0)
          + (IF g \in DOMAIN inc THEN inc[g] ELSE 0)]

EmptyDict == [g \in {} |-> 0]

\* lines 65-76: one iteration of the loop over documents
CountDocument ==
    /\ tf_pc = "count"
    /\ doc_i <= Len(documents)
    /\ ngram_document_frequency' =
          CounterUpdate(ngram_document_frequency, DocumentIncrement(documents[doc_i]))
    /\ doc_i' = doc_i + 1
    /\ UNCHANGED <<documents, idf_weights, tf_pc>>
    /\ UNCHANGED <<semVars, rdVars, fmVars, pureVars, ioVars>>

\* lines 79-84
ReturnWeights ==
    /\ tf_pc = "count"
    /\ doc_i > Len(documents)
    /\ idf_weights' = [ngram \in DOMAIN ngram_document_frequency |->
                          Log(Len(documents), ngram_document_frequency[ngram] + 1)]
    /\ tf_pc' = "done"
    /\ UNCHANGED <<documents, ngram_document_frequency, doc_i>>
    /\ UNCHANGED <<semVars, rdVars, fmVars, pureVars, ioVars>>

TfIdle ==
    /\ documents = <<>>
    /\ ngram_document_frequency = EmptyDict
    /\ doc_i = 0
    /\ idf_weights = EmptyDict
    /\ tf_pc = "idle"

\* documents as comporator_start reads them: Habr records carry title and
\* content, Telegram records carry text
DocumentPool ==
    { [id |-> 1, text |-> <<"a", " ", "a", " ", "a", " ", "a", " ", "b", " ", "c", " ", "d">>],
      [id |-> 2, text |-> <<"s", " ", "s", " ", "s", " ", "s">>],
      [id |-> 3, text |-> None],
      [title |-> <<"t">>, content |-> <<"a", " ", "b", " ", "c", " ", "d">>],
      [title |-> <<"A", ",", " ", "b", "\t", " ", "c", "!">>, content |-> <<>>],
      [title |-> <<"a", " ", "b">>] }

(***************************************************************************)
(* index_habr_posts                                                        *)
(***************************************************************************)
\* lines 100-102
HabrPostNgrams(habr_post, ngram_size) ==
    Range(generate_ngrams(
            preprocess_text(Or(Get(habr_post, "content", <<>>),
                               Get(habr_post, "title", <<>>))),
            ngram_size))

\* the posts (positions in habr_posts) appended under one n-gram, in the
\* order of the loop of line 99
RECURSIVE PostsWithNgram(_, _)
PostsWithNgram(has, k) ==
    IF k > Len(has) THEN <<>>
    ELSE (IF has[k] THEN <<k>> ELSE <<>>) \o PostsWithNgram(has, k + 1)

\* lines 98-107; an entry (habr_post, post_ngrams) is the post's position
index_habr_posts(habr_posts_, ngram_size) ==
    LET post_ngrams == [k \in 1..Len(habr_posts_) |->
                           HabrPostNgrams(habr_posts_[k], ngram_size)]
        Has(ngram) == [k \in 1..Len(habr_posts_) |-> ngram \in post_ngrams[k]]
    IN  [ngram \in UNION Range(post_ngrams) |-> PostsWithNgram(Has(ngram), 1)]

(***************************************************************************)
(* find_matching_posts                                                     *)
(***************************************************************************)
MIN_ABSOLUTE_THRESHOLD == 60000

\* 0.9, times 1000
MIN_RELATIVE_THRESHOLD == 900

\* lines 125-126
TelegramPostNgrams(telegram_post, ngram_size) ==
    Range(generate_ngrams(preprocess_text(Get(telegram_post, "text", <<>>)), ngram_size))

\* line 134: habr_post['title'] raises KeyError for a record without that key
HabrPostKeyRaises(habr_post) == "title" \notin DOMAIN habr_post

\* line 134
HabrPostKey(habr_post) == <<habr_post.title, Get(habr_post, "date", <<>>)>>

RECURSIVE SumWeights(_, _)
SumWeights(ngrams, weights) ==
    IF ngrams = {} THEN 0
    ELSE LET g == CHOOSE x \in ngrams : TRUE
         IN  Get(weights, g, 0) + SumWeights(ngrams \ {g}, weights)

\* SimilarityScore over all n-grams of the Telegram post instead of the common ones
SimilarityScoreOfTelegramNgrams(telegram_post_ngrams, habr_post_ngrams, weights) ==
    SumWeights(telegram_post_ngrams, weights)

\* lines 137-141
SimilarityScore(telegram_post_ngrams, habr_post_ngrams, weights) ==
    SumWeights(telegram_post_ngrams \cap habr_post_ngrams, weights)

\* SimilarityThreshold with the two thresholds added instead of the larger taken
SimilarityThresholdSum(telegram_ngram_count, habr_ngram_count) ==
    MIN_ABSOLUTE_THRESHOLD
      + MIN_RELATIVE_THRESHOLD * Min2(telegram_ngram_count, habr_ngram_count)

\* lines 150-154
SimilarityThreshold(telegram_ngram_count, habr_ngram_count) ==
    Max2(MIN_ABSOLUTE_THRESHOLD,
         MIN_RELATIVE_THRESHOLD * Min2(telegram_ngram_count, habr_ngram_count))

\* MeetsThreshold with > in line 156
MeetsThresholdStrictly(score, similarity_threshold) == score > similarity_threshold

\* line 156
MeetsThreshold(score, similarity_threshold) == score >= similarity_threshold

\* The loop of line 131 runs over a set of strings, whose order is not fixed.
\* N-grams with the same posting list are interchangeable, so an order of the
\* loop is: the order in which the different posting lists are first met, and
\* the posting list of the n-gram that comes last.
PostingLists(index, ngrams) == {index[g] : g \in ngrams \cap DOMAIN index}

NgramsWithList(index, ngrams, list) == {g \in ngrams \cap DOMAIN index : index[g] = list}

LoopOrders(index, ngrams) ==
    LET lists == PostingLists(index, ngrams)
        n == Cardinality(lists)
    IN  {o \in [first : [1..n -> lists], last : lists] :
            /\ \A a, b \in 1..n : a # b => o.first[a] # o.first[b]
            /\ \/ Cardinality(NgramsWithList(index, ngrams, o.last)) >= 2
               \/ o.last = o.first[n]}

RECURSIVE Flatten(_)
Flatten(lists) == IF lists = <<>> THEN <<>> ELSE Head(lists) \o Flatten(Tail(lists))

\* the keys of a sequence of posts, each once, in the order of first occurrence
RECURSIVE KeysInOrder(_, _, _)
KeysInOrder(habr_posts_, visits, k) ==
    IF k > Len(visits) THEN <<>>
    ELSE LET key == HabrPostKey(habr_posts_[visits[k]])
         IN  (IF \E a \in 1..(k - 1) : HabrPostKey(habr_posts_[visits[a]]) = key
              THEN <<>> ELSE <<key>>)
               \o KeysInOrder(habr_posts_, visits, k + 1)

SetMax(S) == CHOOSE x \in S : \A y \in S : y <= x

\* lines 129-146: current_telegram_matches after the loop of line 131, as the
\* sequence of its items: the strict > of line 145 leaves under each key the
\* largest score of the posts with that key
CurrentTelegramMatches(habr_posts_, index, weights, ngram_size, telegram_post_ngrams, order) ==
    LET visits == Flatten(order.first)
        keys == KeysInOrder(habr_posts_, visits, 1)
    IN  [k \in 1..Len(keys) |->
            [key |-> keys[k],
             score |-> SetMax({SimilarityScore(telegram_post_ngrams,
                                               HabrPostNgrams(habr_posts_[h], ngram_size),
                                               weights) :
                                 h \in {v \in Range(visits) :
                                           HabrPostKey(habr_posts_[v]) = keys[k]}})]]

KeyPosition(best, key) ==
    IF \E k \in 1..Len(best) : best[k].key = key
    THEN CHOOSE k \in 1..Len(best) : best[k].key = key
    ELSE 0

\* UpdateBest with >= for > in line 159: on equal scores the later candidate is kept
UpdateBestTiesToLater(best, key, score, telegram_post, telegram_ngram_count, habr_ngram_count) ==
    LET pos == KeyPosition(best, key)
        entry == [key |-> key,
                  habr_title |-> key[1],
                  habr_date |-> key[2],
                  score |-> score,
                  telegram_id |-> Get(telegram_post, "id", <<>>),
                  telegram_date |-> Get(telegram_post, "date", <<>>),
                  telegram_ngram_count |-> telegram_ngram_count,
                  habr_ngram_count |-> habr_ngram_count]
    IN  IF pos = 0 THEN Append(best, entry)
        ELSE IF score >= best[pos].score THEN [best EXCEPT ![pos] = entry]
        ELSE best

\* lines 158-168: habr_post_to_best_match after one accepted candidate
UpdateBest(best, key, score, telegram_post, telegram_ngram_count, habr_ngram_count) ==
    LET pos == KeyPosition(best, key)
        entry == [key |-> key,
                  habr_title |-> key[1],
                  habr_date |-> key[2],
                  score |-> score,
                  telegram_id |-> Get(telegram_post, "id", <<>>),
                  telegram_date |-> Get(telegram_post, "date", <<>>),
                  telegram_ngram_count |-> telegram_ngram_count,
                  habr_ngram_count |-> habr_ngram_count]
    IN  IF pos = 0 THEN Append(best, entry)
        ELSE IF score > best[pos].score THEN [best EXCEPT ![pos] = entry]
        ELSE best

\* lines 149-168: the loop over current_telegram_matches; habr_post_ngrams is
\* what the loop of line 133 left in that variable
RECURSIVE FilterAndUpdate(_, _, _, _, _, _)
FilterAndUpdate(best, current, k, telegram_post, telegram_ngram_count, habr_ngram_count) ==
    IF k > Len(current) THEN best
    ELSE FilterAndUpdate(
            IF MeetsThreshold(current[k].score,
                              SimilarityThreshold(telegram_ngram_count, habr_ngram_count))
            THEN UpdateBest(best, current[k].key, current[k].score, telegram_post,
                            telegram_ngram_count, habr_ngram_count)
            ELSE best,
            current, k + 1, telegram_post, telegram_ngram_count, habr_ngram_count)

\* lines 125-168 for one Telegram post, with the loops of lines 131-133 run
\* in one order: habr_post_to_best_match afterwards
BestAfterPost(best, habr_posts_, index, weights, telegram_post, order) ==
    LET telegram_post_ngrams == TelegramPostNgrams(telegram_post, NGRAM_SIZE)
        current == CurrentTelegramMatches(habr_posts_, index, weights, NGRAM_SIZE,
                                          telegram_post_ngrams, order)
        last_habr == order.last[Len(order.last)]
        habr_post_ngrams == HabrPostNgrams(habr_posts_[last_habr], NGRAM_SIZE)
    IN  FilterAndUpdate(best, current, 1, telegram_post,
                        Cardinality(telegram_post_ngrams), Cardinality(habr_post_ngrams))

\* line 214
IndexHabrPosts ==
    /\ fm_pc = "index"
    /\ habr_ngram_index' = index_habr_posts(lex_habr_posts, NGRAM_SIZE)
    /\ habr_post_to_best_match' = <<>>
    /\ tpi' = 1
    /\ fm_pc' = "score"
    /\ UNCHANGED <<lex_habr_posts, lex_telegram_posts, tfidf_weights, threshold_tests,
                   unique_matches>>
    /\ UNCHANGED <<semVars, rdVars, tfVars, pureVars, ioVars>>

\* the Habr posts that the loops of lines 131-133 reach for one Telegram post
VisitedPosts(index, ngrams) == UNION {Range(index[g]) : g \in ngrams \cap DOMAIN index}

\* line 134 raises while the Telegram post at tpi is scored
ScoringRaises ==
    \E h \in VisitedPosts(habr_ngram_index,
                          TelegramPostNgrams(lex_telegram_posts[tpi], NGRAM_SIZE)) :
        HabrPostKeyRaises(lex_habr_posts[h])

\* lines 124-168: one iteration of the loop over telegram_posts; nothing
\* catches the KeyError of line 134, which ends find_matching_posts and its
\* callers
ScoreTelegramPost ==
    /\ fm_pc = "score"
    /\ tpi <= Len(lex_telegram_posts)
    /\ LET telegram_post == lex_telegram_posts[tpi]
           telegram_post_ngrams == TelegramPostNgrams(telegram_post, NGRAM_SIZE)
       IN  IF ScoringRaises \/ telegram_post_ngrams \cap DOMAIN habr_ngram_index = {}
           THEN UNCHANGED <<habr_post_to_best_match, threshold_tests>>
           ELSE \E order \in LoopOrders(habr_ngram_index, telegram_post_ngrams) :
                  LET current == CurrentTelegramMatches(lex_habr_posts, habr_ngram_index,
                                     tfidf_weights, NGRAM_SIZE, telegram_post_ngrams, order)
                      last_habr == order.last[Len(order.last)]
                      habr_post_ngrams == HabrPostNgrams(lex_habr_posts[last_habr], NGRAM_SIZE)
                      tcount == Cardinality(telegram_post_ngrams)
                      hcount == Cardinality(habr_post_ngrams)
                  IN  /\ habr_post_to_best_match' =
                            BestAfterPost(habr_post_to_best_match, lex_habr_posts,
                                          habr_ngram_index, tfidf_weights,
                                          telegram_post, order)
                      /\ threshold_tests' = threshold_tests \cup
                            {[telegram |-> tpi,
                              key |-> current[k].key,
                              score |-> current[k].score,
                              habr_ngrams_from |-> last_habr,
                              similarity_threshold |-> SimilarityThreshold(tcount, hcount),
                              accepted |-> MeetsThreshold(current[k].score,
                                              SimilarityThreshold(tcount, hcount))] :
                                k \in 1..Len(current)}
    /\ tpi' = IF ScoringRaises THEN tpi ELSE tpi + 1
    /\ fm_pc' = IF ScoringRaises THEN "KeyError" ELSE fm_pc
    /\ UNCHANGED <<lex_habr_posts, lex_telegram_posts, tfidf_weights, habr_ngram_index,
                   unique_matches>>
    /\ UNCHANGED <<semVars, rdVars, tfVars, pureVars, ioVars>>

\* sorted(..., key=lambda x: -x[2]): stable, descending by score
RECURSIVE InsertByScore(_, _)
InsertByScore(sorted, entry) ==
    IF sorted = <<>> THEN <<entry>>
    ELSE IF Head(sorted).score >= entry.score
         THEN <<Head(sorted)>> \o InsertByScore(Tail(sorted), entry)
         ELSE <<entry>> \o sorted

\* SortByScore without sorting: the order of insertion into the dict
KeepInsertionOrder(entries) == entries

RECURSIVE SortByScore(_)
SortByScore(entries) ==
    IF entries = <<>> THEN <<>>
    ELSE InsertByScore(SortByScore(SubSeq(entries, 1, Len(entries) - 1)),
                       entries[Len(entries)])

MatchTuple(match) ==
    [source |-> "habr",
     habr_title |-> match.habr_title,
     habr_date |-> match.habr_date,
     telegram_id |-> match.telegram_id,
     telegram_date |-> match.telegram_date,
     score |-> match.score,
     telegram_ngram_count |-> match.telegram_ngram_count,
     habr_ngram_count |-> match.habr_ngram_count]

\* UniqueMatches without the test of line 181
RECURSIVE UniqueMatchesKeepingAll(_, _, _)
UniqueMatchesKeepingAll(sorted_matches, k, used_telegram_post_ids) ==
    IF k > Len(sorted_matches) THEN <<>>
    ELSE <<MatchTuple(sorted_matches[k])>>
           \o UniqueMatchesKeepingAll(sorted_matches, k + 1, used_telegram_post_ids)

\* lines 177-192
RECURSIVE UniqueMatches(_, _, _)
UniqueMatches(sorted_matches, k, used_telegram_post_ids) ==
    IF k > Len(sorted_matches) THEN <<>>
    ELSE IF sorted_matches[k].telegram_id \notin used_telegram_post_ids
         THEN <<MatchTuple(sorted_matches[k])>>
                \o UniqueMatches(sorted_matches, k + 1,
                       used_telegram_post_ids \cup {sorted_matches[k].telegram_id})
         ELSE UniqueMatches(sorted_matches, k + 1, used_telegram_post_ids)

\* lines 170-194
ReturnUniqueMatches ==
    /\ fm_pc = "score"
    /\ tpi > Len(lex_telegram_posts)
    /\ unique_matches' = UniqueMatches(SortByScore(habr_post_to_best_match), 1, {})
    /\ fm_pc' = "done"
    /\ UNCHANGED <<lex_habr_posts, lex_telegram_posts, tfidf_weights, habr_ngram_index,
                   habr_post_to_best_match, tpi, threshold_tests>>
    /\ UNCHANGED <<semVars, rdVars, tfVars, pureVars, ioVars>>

FmIdle ==
    /\ lex_habr_posts = <<>>
    /\ lex_telegram_posts = <<>>
    /\ tfidf_weights = EmptyDict
    /\ habr_ngram_index = EmptyDict
    /\ habr_post_to_best_match = <<>>
    /\ tpi = 0
    /\ threshold_tests = {}
    /\ unique_matches = <<>>
    /\ fm_pc = "idle"

\* save_to_excel has not been called
NotSaved == <<>>

\* the outcome of a call: not made yet, a value returned, an exception raised
Pending == [status |-> "pending"]

Returned(value) == [status |-> "returned", value |-> value]

Raised(error) == [status |-> "raised", error |-> error]

NoCall == [status |-> "idle"]

\* no call made, none asked for
PureIdle ==
    /\ pure_args = NoCall
    /\ pure_results = NoCall

(***************************************************************************)
(* DataStorage.save_as_json and read_json (storage/data_storage.py).       *)
(* Labels and file names are strings; a file is absent, unreadable as      *)
(* JSON, or holds the posts that were dumped into it.                      *)
(***************************************************************************)
\* storage_config.py lines 4-8
ALLOWED_FILES ==
    ("parsers" :> "parsers.json") @@ ("pikabu" :> "pikabu.json")
        @@ ("telegram" :> "telegram.json")

\* the labels of the type annotations Literal['habr', 'pikabu', 'telegram']
\* and of the callers, 'parsers' of ALLOWED_FILES, and two labels nobody supports
Labels == {"habr", "pikabu", "telegram", "parsers", "habr.json", ""}

\* filename + '.json' (line 32)
WithJsonSuffix(filename) ==
    CASE filename = "habr" -> "habr.json"
      [] filename = "pikabu" -> "pikabu.json"
      [] filename = "telegram" -> "telegram.json"
      [] filename = "parsers" -> "parsers.json"
      [] filename = "habr.json" -> "habr.json.json"
      [] OTHER -> ".json"

FileNames == {WithJsonSuffix(l) : l \in Labels}

Absent == [kind |-> "absent"]
Corrupt == [kind |-> "corrupt"]
JsonFile(ps) == [kind |-> "json", posts |-> ps]

\* what a parser hands to save_as_json
PostBatches == { <<>>, <<[id |-> 1]>>, <<[id |-> 1], [id |-> 2]>> }

\* the test of lines 28 and 65
LabelAllowedAsAnnotated(label) == label \in {"habr", "pikabu", "telegram"}

LabelAllowed(label) == label \in DOMAIN ALLOWED_FILES

\* lines 17-51: mkdir comes before the test of the label, and an error of
\* open or json.dump is caught and answered with False
SaveAsJson ==
    /\ storage_result # NoCall
    /\ \E ps \in PostBatches, filename \in Labels, mkdir_fails, write_fails \in BOOLEAN :
          LET call == [op |-> "save_as_json", label |-> filename]
          IN  IF mkdir_fails
              THEN /\ storage_result' = call @@ Raised("OSError")
                   /\ UNCHANGED data_dir
              ELSE IF ~LabelAllowed(filename)
              THEN /\ storage_result' = call @@ Raised("ValueError")
                   /\ UNCHANGED data_dir
              ELSE IF write_fails
              THEN /\ storage_result' = call @@ Returned(FALSE)
                   /\ data_dir' = [data_dir EXCEPT ![WithJsonSuffix(filename)] = Corrupt]
              ELSE /\ storage_result' = call @@ Returned(TRUE)
                   /\ data_dir' = [data_dir EXCEPT ![WithJsonSuffix(filename)] = JsonFile(ps)]
    /\ UNCHANGED <<semVars, rdVars, tfVars, fmVars, pureVars, tgVars, mainVars>>

\* lines 53-85: a missing or unreadable file is answered with None
ReadJson ==
    /\ storage_result # NoCall
    /\ \E source \in Labels :
          LET call == [op |-> "read_json", label |-> source]
          IN  storage_result' =
                 IF ~LabelAllowed(source) THEN call @@ Raised("ValueError")
                 ELSE IF data_dir[ALLOWED_FILES[source]].kind = "json"
                 THEN call @@ Returned(data_dir[ALLOWED_FILES[source]].posts)
                 ELSE call @@ Returned(None)
    /\ UNCHANGED data_dir
    /\ UNCHANGED <<semVars, rdVars, tfVars, fmVars, pureVars, tgVars, mainVars>>

StIdle ==
    /\ data_dir = <<>>
    /\ storage_result = NoCall

(***************************************************************************)
(* TelegramChannelParser.get_posts_from_channel (parsers/src/tg_parser.py) *)
(***************************************************************************)
\* the cap of line 108: min(100, limit)
MaxRequestLimit == 100

\* GetHistoryRequest (lines 103-112): the messages older than offset_id (all
\* of them when offset_id is 0), newest first, at most request_limit of them
HistoryBatch(history, offset, request_limit) ==
    LET newest == IF offset = 0 THEN history ELSE offset - 1
        count == Min2(request_limit, newest)
    IN  [k \in 1..count |-> newest - k + 1]

\* line 122
ReachedTotal(total_limit, total) == 0 < total_limit /\ total_limit <= total

\* lines 102-126: one iteration of the loop, from the request to the break
\* or to the sleep of line 129
TgRequestHistory ==
    /\ tg_pc = "request"
    /\ LET messages == HistoryBatch(tg_history, offset_id, Min2(MaxRequestLimit, tg_limit))
           total == total_count_of_messages + Len(messages)
       IN  IF messages = <<>>
           THEN /\ tg_pc' = "returned"
                /\ UNCHANGED <<tg_posts, total_count_of_messages, offset_id>>
           ELSE /\ tg_posts' = tg_posts \o messages
                /\ total_count_of_messages' = total
                /\ IF ReachedTotal(tg_total_limit, total)
                   THEN /\ tg_pc' = "returned"
                        /\ UNCHANGED offset_id
                   ELSE /\ offset_id' = messages[Len(messages)]
                        /\ tg_pc' = "sleep"
    /\ UNCHANGED <<tg_history, tg_limit, tg_total_limit>>
    /\ UNCHANGED <<semVars, rdVars, tfVars, fmVars, pureVars, stVars, mainVars>>

\* line 129: the sleep is over
TgWake ==
    /\ tg_pc = "sleep"
    /\ tg_pc' = "request"
    /\ UNCHANGED <<tg_history, tg_limit, tg_total_limit, offset_id,
                   total_count_of_messages, tg_posts>>
    /\ UNCHANGED <<semVars, rdVars, tfVars, fmVars, pureVars, stVars, mainVars>>

TgIdle ==
    /\ tg_history = 0
    /\ tg_limit = 0
    /\ tg_total_limit = 0
    /\ offset_id = 0
    /\ total_count_of_messages = 0
    /\ tg_posts = <<>>
    /\ tg_pc = "idle"

(***************************************************************************)
(* main (main.py) with the tasks of TelegramChannelParser.run and          *)
(* HabrParser.start, which the event loop interleaves at their awaits.     *)
(***************************************************************************)
\* tg_parser.py line 88: limit = 50
DefaultLimit == 50

\* tg_parser.py line 161: post_limit = 500
DefaultPostLimit == 500

\* habr_parser.py line 20: max_pages = 2
DefaultMaxPages == 2

\* what fetch_page returns and parse_page makes of it: no page, a page
\* without articles, a page with one article
NoPage == [html |-> FALSE, found |-> <<>>]

PageArticles(page) ==
    { NoPage,
      [html |-> TRUE, found |-> <<>>],
      [html |-> TRUE, found |-> <<[title |-> page, content |-> <<"x">>]>>] }

\* the keyword arguments that save_as_json takes (data_storage.py line 17)
SaveAsJsonKeywords == {}

\* the keyword arguments of the call of habr_parser.py line 176
HabrSaveKeywords == {"channel_url"}

\* the call of line 176: TypeError for a keyword that save_as_json does not
\* take, ValueError for a label that it does not allow
HabrSaveRaises == ~(HabrSaveKeywords \subseteq SaveAsJsonKeywords) \/ ~LabelAllowed("habr")

Running(pc) == pc \notin {"idle", "returned", "done", "raised", "cancelled"}

\* main.py lines 19-25: both tasks are created, main waits in gather
MainCreateTasks ==
    /\ main_pc = "init"
    /\ main_pc' = "gather"
    /\ tg_pc' = "connect"
    /\ habr_pc' = "fetch"
    /\ UNCHANGED <<tg_history, tg_limit, tg_total_limit, offset_id,
                   total_count_of_messages, tg_posts, html_pages, articles>>
    /\ UNCHANGED <<semVars, rdVars, tfVars, fmVars, pureVars, stVars>>

\* tg_parser.py lines 163-164: the client connects and connect_to_channel
\* looks the channel up; either may raise
TgConnect ==
    /\ tg_pc = "connect"
    /\ \E connected \in BOOLEAN : tg_pc' = IF connected THEN "request" ELSE "raised"
    /\ UNCHANGED <<tg_history, tg_limit, tg_total_limit, offset_id,
                   total_count_of_messages, tg_posts>>
    /\ UNCHANGED mainVars
    /\ UNCHANGED <<semVars, rdVars, tfVars, fmVars, pureVars, stVars>>

\* habr_parser.py lines 186-188 and 162-163: the pages are requested;
\* fetch_page answers every failure with None
HabrFetchPages ==
    /\ habr_pc = "fetch"
    /\ \E pages \in [1..DefaultMaxPages -> UNION {PageArticles(p) : p \in 1..DefaultMaxPages}] :
          /\ \A p \in 1..DefaultMaxPages : pages[p] \in PageArticles(p)
          /\ html_pages' = pages
    /\ habr_pc' = "parse"
    /\ UNCHANGED <<main_pc, articles>>
    /\ UNCHANGED <<semVars, rdVars, tfVars, fmVars, pureVars, stVars, tgVars>>

\* self.articles after the loop of lines 165-174
RECURSIVE ExtendArticles(_, _, _)
ExtendArticles(found, pages, page) ==
    IF page > Len(pages) THEN found
    ELSE IF ~pages[page].html \/ pages[page].found = <<>>
         THEN ExtendArticles(found, pages, page + 1)
         ELSE ExtendArticles(found \o pages[page].found, pages, page + 1)

\* habr_parser.py lines 165-177 and 189-196: the articles are collected and
\* save_as_json is called; what it raises leaves get_articles and start
HabrGetArticles ==
    /\ habr_pc = "parse"
    /\ articles' = ExtendArticles(articles, html_pages, 1)
    /\ habr_pc' = IF HabrSaveRaises THEN "raised" ELSE "done"
    /\ UNCHANGED <<main_pc, html_pages>>
    /\ UNCHANGED <<semVars, rdVars, tfVars, fmVars, pureVars, stVars, tgVars>>

\* main.py line 25: gather passes on the first exception of a task; main has
\* no handler, and asyncio.run cancels the task that is still running
MainGatherRaises ==
    /\ main_pc = "gather"
    /\ tg_pc = "raised" \/ habr_pc = "raised"
    /\ main_pc' = "raised"
    /\ tg_pc' = IF Running(tg_pc) THEN "cancelled" ELSE tg_pc
    /\ habr_pc' = IF Running(habr_pc) THEN "cancelled" ELSE habr_pc
    /\ UNCHANGED <<tg_history, tg_limit, tg_total_limit, offset_id,
                   total_count_of_messages, tg_posts, html_pages, articles>>
    /\ UNCHANGED <<semVars, rdVars, tfVars, fmVars, pureVars, stVars>>

\* main.py lines 25-29: both tasks have returned; start is called with the
\* lists of the two parsers
MainStartMatching ==
    /\ main_pc = "gather"
    /\ tg_pc = "returned"
    /\ habr_pc = "done"
    /\ main_pc' = "matching"
    /\ UNCHANGED <<habr_pc, html_pages, articles>>
    /\ UNCHANGED <<semVars, rdVars, tfVars, fmVars, pureVars, stVars, tgVars>>

MainIdle ==
    /\ main_pc = "idle"
    /\ habr_pc = "idle"
    /\ html_pages = <<>>
    /\ articles = <<>>

IoIdle ==
    /\ StIdle
    /\ TgIdle
    /\ MainIdle

CosTables == [VectorPairs -> Scores]

(***************************************************************************)
(* remove_duplicates step by step, and applied again to what it returned.  *)
(***************************************************************************)
\* lines 81-87
BeginDedup ==
    /\ rd_pc = "call"
    /\ embeddings' = get_embeddings_for_posts(posts)
    /\ filtered_posts' = <<>>
    /\ seen' = {}
    /\ di' = 1
    /\ rd_pc' = "scan"
    /\ UNCHANGED <<posts, rd_run, rd_first>>
    /\ UNCHANGED <<semVars, tfVars, fmVars, pureVars, ioVars>>

\* lines 89-109: one iteration of the loop over posts
ScanPost ==
    /\ rd_pc = "scan"
    /\ di <= Len(posts)
    /\ LET st == DedupIteration(posts, embeddings, di,
                                [filtered |-> filtered_posts, seen |-> seen])
       IN  /\ filtered_posts' = st.filtered
           /\ seen' = st.seen
    /\ di' = di + 1
    /\ UNCHANGED <<posts, embeddings, rd_pc, rd_run, rd_first>>
    /\ UNCHANGED <<semVars, tfVars, fmVars, pureVars, ioVars>>

\* lines 111-112
ReturnFiltered ==
    /\ rd_pc = "scan"
    /\ di > Len(posts)
    /\ rd_pc' = "returned"
    /\ rd_first' = IF rd_run = 1 THEN filtered_posts ELSE rd_first
    /\ UNCHANGED <<posts, embeddings, filtered_posts, seen, di, rd_run>>
    /\ UNCHANGED <<semVars, tfVars, fmVars, pureVars, ioVars>>

\* the caller hands the returned list to remove_duplicates once more
DedupAgain ==
    /\ rd_pc = "returned"
    /\ rd_run = 1
    /\ posts' = filtered_posts
    /\ rd_run' = 2
    /\ rd_pc' = "call"
    /\ UNCHANGED <<embeddings, filtered_posts, seen, di, rd_first>>
    /\ UNCHANGED <<semVars, tfVars, fmVars, pureVars, ioVars>>

RdIdle ==
    /\ posts = <<>>
    /\ embeddings = <<>>
    /\ filtered_posts = <<>>
    /\ seen = {}
    /\ di = 0
    /\ rd_pc = "idle"
    /\ rd_run = 0
    /\ rd_first = <<>>

\* the call of line 224: start hands the three lists to match_all_posts
Init ==
    /\ cos \in CosTables
    /\ \E nh \in 0..MaxPosts :
         \E nt \in 0..(MaxPosts - nh) :
           \E np \in 0..(MaxPosts - nh - nt) :
              /\ in_habr \in HabrLists(nh)
              /\ in_telegram \in TelegramLists(nt, {<<>>, <<5>>})
              /\ in_pikabu \in PikabuLists(np)
    /\ habr_posts = in_habr
    /\ telegram_posts = in_telegram
    /\ pikabu_posts = in_pikabu
    /\ habr_embeddings = <<>>
    /\ telegram_embeddings = <<>>
    /\ pikabu_embeddings = <<>>
    /\ matched_habr = <<>>
    /\ unmatched_habr = <<>>
    /\ used_telegram = {}
    /\ used_pikabu = {}
    /\ unmatched_telegram = <<>>
    /\ unmatched_pikabu = <<>>
    /\ hi = 0
    /\ ma_pc = "dedup_telegram"
    /\ saved = NotSaved
    /\ provider_failed = FALSE
    /\ encode_requests = <<>>
    /\ RdIdle
    /\ TfIdle
    /\ FmIdle
    /\ PureIdle
    /\ IoIdle

\* lines 224-228: start saves what match_all_posts returned
SaveToExcel ==
    /\ ma_pc = "done"
    /\ saved = NotSaved
    /\ saved' = <<matched_habr, unmatched_habr, unmatched_telegram, unmatched_pikabu>>
    /\ UNCHANGED <<encode_requests, cos, provider_failed, in_habr, in_telegram, in_pikabu, habr_posts,
                   telegram_posts, pikabu_posts, habr_embeddings, telegram_embeddings,
                   pikabu_embeddings, matched_habr, unmatched_habr, used_telegram,
                   used_pikabu, unmatched_telegram, unmatched_pikabu, hi, ma_pc>>
    /\ UNCHANGED <<rdVars, tfVars, fmVars, pureVars, ioVars>>

Next ==
    \/ DedupTelegram
    \/ DedupPikabu
    \/ EmbedAll
    \/ MatchHabrPost
    \/ ReturnMatches
    \/ SaveToExcel

Spec == Init /\ [][Next]_vars

SemIdle ==
    /\ in_habr = <<>>
    /\ in_telegram = <<>>
    /\ in_pikabu = <<>>
    /\ habr_posts = <<>>
    /\ telegram_posts = <<>>
    /\ pikabu_posts = <<>>
    /\ habr_embeddings = <<>>
    /\ telegram_embeddings = <<>>
    /\ pikabu_embeddings = <<>>
    /\ matched_habr = <<>>
    /\ unmatched_habr = <<>>
    /\ used_telegram = {}
    /\ used_pikabu = {}
    /\ unmatched_telegram = <<>>
    /\ unmatched_pikabu = <<>>
    /\ hi = 0
    /\ ma_pc = "idle"
    /\ saved = NotSaved
    /\ provider_failed = FALSE
    /\ encode_requests = <<>>

\* the similarity of two different vectors either is or is not above
\* threshold_duplicate; 90 is the boundary itself
DedupCosTables == [VectorPairs -> {90, 95}]

DedupInit ==
    /\ cos \in DedupCosTables
    /\ \E n \in 0..MaxDedup :
          posts \in TelegramLists(n, ViewsValues) \cup PikabuLists(n)
    /\ embeddings = <<>>
    /\ filtered_posts = <<>>
    /\ seen = {}
    /\ di = 0
    /\ rd_pc = "call"
    /\ rd_run = 1
    /\ rd_first = <<>>
    /\ SemIdle
    /\ TfIdle
    /\ FmIdle
    /\ PureIdle
    /\ IoIdle

DedupNext ==
    \/ BeginDedup
    \/ ScanPost
    \/ ReturnFiltered
    \/ DedupAgain

DedupSpec == DedupInit /\ [][DedupNext]_vars

\* the call of line 229
TfidfInit ==
    /\ documents \in SeqsUpTo(DocumentPool, MaxDocs)
    /\ ngram_document_frequency = EmptyDict
    /\ doc_i = 1
    /\ idf_weights = EmptyDict
    /\ tf_pc = "count"
    /\ SemIdle
    /\ cos = [p \in VectorPairs |-> 50]
    /\ RdIdle
    /\ FmIdle
    /\ PureIdle
    /\ IoIdle

TfidfNext ==
    \/ CountDocument
    \/ ReturnWeights

TfidfSpec == TfidfInit /\ [][TfidfNext]_vars

\* short texts: the n-grams are "a b c", "b c d" and "c d e"
TelegramTexts ==
    { <<"A", ",", " ", "b", "\t", " ", "c", "!">>,
      <<"a", " ", "b", " ", "c", " ", "d">>,
      <<"b", " ", "c", " ", "d", " ", "e">>,
      <<"a", " ", "b">> }

HabrContents ==
    { <<"a", " ", "b", " ", "c">>,
      <<"a", " ", "b", " ", "c", " ", "d">>,
      <<"c", " ", "d", " ", "e">>,
      <<>> }

HabrTitles == { <<"h">>, <<"k">> }

TelegramDicts(n) ==
    {[k \in 1..n |-> [id |-> k, date |-> <<"d">>, text |-> ts[k]]] :
        ts \in SeqsOfLen(TelegramTexts, n)}

HabrDicts(n) ==
    {[k \in 1..n |-> [title |-> hs[k].t, date |-> <<"d">>, content |-> hs[k].c]] :
        hs \in SeqsOfLen([t : HabrTitles, c : HabrContents], n)}

Abc == <<"a", " ", "b", " ", "c">>
Bcd == <<"b", " ", "c", " ", "d">>
Cde == <<"c", " ", "d", " ", "e">>

\* any weight table: find_matching_posts takes it as an argument
WeightTables ==
    [{Abc, Bcd, Cde} -> {30000, 60000}] \cup [{Abc, Bcd} -> {30000, 60000}]

\* the call of line 232, with the weight table left open
LexInit ==
    /\ \E nt \in 0..MaxLexPosts :
         \E nh \in 0..(MaxLexPosts - nt) :
            /\ lex_telegram_posts \in TelegramDicts(nt)
            /\ lex_habr_posts \in HabrDicts(nh)
    /\ tfidf_weights \in WeightTables
    /\ habr_ngram_index = EmptyDict
    /\ habr_post_to_best_match = <<>>
    /\ tpi = 0
    /\ threshold_tests = {}
    /\ unique_matches = <<>>
    /\ fm_pc = "index"
    /\ SemIdle
    /\ cos = [p \in VectorPairs |-> 50]
    /\ RdIdle
    /\ TfIdle
    /\ PureIdle
    /\ IoIdle

LexNext ==
    \/ IndexHabrPosts
    \/ ScoreTelegramPost
    \/ ReturnUniqueMatches

LexSpec == LexInit /\ [][LexNext]_vars

\* long texts: LongLen different two-letter words, so that 0.9 times the
\* number of n-grams exceeds 60
Letters == <<"a", "b", "c", "d", "e", "f", "g", "h", "i">>

LongWord(k) == <<Letters[((k - 1) \div 9) + 1], Letters[((k - 1) % 9) + 1]>>

\* the first n words, one space between them
LongText(n) ==
    [p \in 1..(3 * n - 1) |->
        IF p % 3 = 0 THEN " " ELSE LongWord(((p - 1) \div 3) + 1)[((p - 1) % 3) + 1]]

\* the same words, written with a capital and an exclamation mark
LongTextRaw(n) == <<"A">> \o Tail(LongText(n)) \o <<"!">>

LongNgrams == Range(generate_ngrams(LongText(LongLen), NGRAM_SIZE))

LongWeightTables ==
    {[g \in LongNgrams |-> w] : w \in {890, 900, 1000}}
      \cup {[g \in {Join(<<LongWord(1), LongWord(2), LongWord(3)>>)} |-> w] : w \in {60000}}

LongHabrDicts(n) ==
    {[k \in 1..n |-> [title |-> hs[k].t, date |-> <<"d">>, content |-> hs[k].c]] :
        hs \in SeqsOfLen([t : HabrTitles,
                          c : {LongTextRaw(LongLen), LongText(LongLen - 1), LongText(3)}], n)}

\* the call of line 232 on long posts
LexLongInit ==
    /\ \E nt \in 0..1 :
          lex_telegram_posts \in
            {[k \in 1..nt |-> [id |-> k, date |-> <<"d">>, text |-> text]] :
                text \in {LongText(LongLen), LongText(LongLen - 1)}}
    /\ \E nh \in 0..2 : lex_habr_posts \in LongHabrDicts(nh)
    /\ tfidf_weights \in LongWeightTables
    /\ habr_ngram_index = EmptyDict
    /\ habr_post_to_best_match = <<>>
    /\ tpi = 0
    /\ threshold_tests = {}
    /\ unique_matches = <<>>
    /\ fm_pc = "index"
    /\ SemIdle
    /\ cos = [p \in VectorPairs |-> 50]
    /\ RdIdle
    /\ TfIdle
    /\ PureIdle
    /\ IoIdle

LexLongSpec == LexLongInit /\ [][LexNext]_vars

\* both matchers, each on one candidate pair per counterpart list
BoundaryInit ==
    /\ cos \in {[p \in VectorPairs |-> c] : c \in Scores}
    /\ in_habr \in HabrLists(1)
    /\ in_telegram \in TelegramLists(1, {<<>>})
    /\ in_pikabu \in PikabuLists(1)
    /\ habr_posts = in_habr
    /\ telegram_posts = in_telegram
    /\ pikabu_posts = in_pikabu
    /\ habr_embeddings = <<>>
    /\ telegram_embeddings = <<>>
    /\ pikabu_embeddings = <<>>
    /\ matched_habr = <<>>
    /\ unmatched_habr = <<>>
    /\ used_telegram = {}
    /\ used_pikabu = {}
    /\ unmatched_telegram = <<>>
    /\ unmatched_pikabu = <<>>
    /\ hi = 0
    /\ ma_pc = "dedup_telegram"
    /\ saved = NotSaved
    /\ provider_failed = FALSE
    /\ encode_requests = <<>>
    /\ lex_telegram_posts \in TelegramDicts(1)
    /\ lex_habr_posts \in
         {<<[title |-> <<"h">>, date |-> <<"d">>, content |-> c]>> : c \in HabrContents}
    /\ tfidf_weights \in {[g \in {Abc, Bcd, Cde} |-> w] : w \in {30000, 60000}}
    /\ habr_ngram_index = EmptyDict
    /\ habr_post_to_best_match = <<>>
    /\ tpi = 0
    /\ threshold_tests = {}
    /\ unique_matches = <<>>
    /\ fm_pc = "index"
    /\ RdIdle
    /\ TfIdle
    /\ PureIdle
    /\ IoIdle

BoundaryNext == Next \/ LexNext

\* records as DataStorage.read_json may deliver them: with and without
\* their text fields, a Habr record also without its title
MalformedTelegramPool(k) ==
    { [id |-> k, date |-> <<"d">>, text |-> <<"a", " ", "b", " ", "c", " ", "d">>],
      [id |-> k, date |-> <<"d">>, text |-> <<"a", " ", "b">>],
      [id |-> k, date |-> <<"d">>, text |-> None],
      [id |-> k, date |-> <<"d">>] }

MalformedHabrPool ==
    { [title |-> <<"h">>, date |-> <<"d">>, content |-> <<"a", " ", "b", " ", "c", " ", "d">>],
      [title |-> <<"k">>, date |-> <<"d">>, content |-> <<>>],
      [title |-> Abc, date |-> <<"d">>],
      [date |-> <<"d">>, content |-> Abc],
      [date |-> <<"d">>, content |-> <<"a", " ", "b">>],
      [date |-> <<"d">>] }

\* the call of line 232 on such records
MalformedInit ==
    /\ \E nt \in 0..MaxMalformed :
         \E nh \in 0..MaxMalformed :
            /\ lex_telegram_posts \in
                  {ts \in [1..nt -> UNION {MalformedTelegramPool(k) : k \in 1..nt}] :
                      \A k \in 1..nt : ts[k].id = k}
            /\ lex_habr_posts \in [1..nh -> MalformedHabrPool]
    /\ tfidf_weights \in {[g \in {Abc, Bcd} |-> w] : w \in {30000, 60000}}
    /\ habr_ngram_index = EmptyDict
    /\ habr_post_to_best_match = <<>>
    /\ tpi = 0
    /\ threshold_tests = {}
    /\ unique_matches = <<>>
    /\ fm_pc = "index"
    /\ SemIdle
    /\ cos = [p \in VectorPairs |-> 50]
    /\ RdIdle
    /\ TfIdle
    /\ PureIdle
    /\ IoIdle

MalformedSpec == MalformedInit /\ [][LexNext]_vars

BoundarySpec == BoundaryInit /\ [][BoundaryNext]_vars

\* texts of one, two and three n-grams, each contained in the next
RivalTexts ==
    { <<"A", ",", " ", "b", "\t", " ", "c", "!">>,
      <<"a", " ", "b", " ", "c", " ", "d">>,
      <<"a", " ", "b", " ", "c", " ", "d", " ", "e">> }

RivalTelegramDicts(n) ==
    {[k \in 1..n |-> [id |-> k, date |-> <<"d">>, text |-> ts[k]]] :
        ts \in SeqsOfLen(RivalTexts, n)}

RivalHabrDicts(n) ==
    {[k \in 1..n |-> [title |-> hs[k].t, date |-> <<"d">>, content |-> hs[k].c]] :
        hs \in SeqsOfLen([t : HabrTitles, c : RivalTexts], n)}

\* weight tables under which the one-n-gram text is accepted or rejected
RivalWeightTables ==
    {w \in [{Abc, Bcd, Cde} -> {30000, 60000}] : w[Bcd] = 60000 /\ w[Cde] = 60000}

\* the call of line 232 on posts that share n-grams
RivalInit ==
    /\ \E nt \in 0..MaxRivals : lex_telegram_posts \in RivalTelegramDicts(nt)
    /\ \E nh \in 0..MaxRivals : lex_habr_posts \in RivalHabrDicts(nh)
    /\ tfidf_weights \in RivalWeightTables
    /\ habr_ngram_index = EmptyDict
    /\ habr_post_to_best_match = <<>>
    /\ tpi = 0
    /\ threshold_tests = {}
    /\ unique_matches = <<>>
    /\ fm_pc = "index"
    /\ SemIdle
    /\ cos = [p \in VectorPairs |-> 50]
    /\ RdIdle
    /\ TfIdle
    /\ PureIdle
    /\ IoIdle

RivalSpec == RivalInit /\ [][LexNext]_vars

(***************************************************************************)
(* Single calls of the text functions and of the score of one pair.        *)
(***************************************************************************)
\* line 53 of content_comporator_bert.py: re.sub raises TypeError when text
\* is not a string
NormalizeTextRaises(text) == text = None

\* raw texts: absent, empty, whitespace only, and texts of two to four words
PureTexts ==
    { None, <<>>, <<" ", "\t">>,
      <<"A", ",", " ", "b", "\t", " ", "c", "!">>,
      <<"a", " ", "b", " ", "c", " ", "d">>,
      <<"b", " ", "c", " ", "d", " ", "e">>,
      <<"a", " ", "b">> }

PureWindows == -1..3

PureWeightTables ==
    { [g \in {Abc, Bcd, Cde} |-> 60000],
      (Abc :> 30000) @@ (Bcd :> 60000) @@ (Cde :> -693),
      (Abc :> 60000) }

PureInit ==
    /\ pure_args \in [text : PureTexts,
                      n : PureWindows,
                      a : PureTexts \ {None, <<>>, <<" ", "\t">>},
                      b : PureTexts \ {None, <<>>, <<" ", "\t">>},
                      weights : PureWeightTables]
    /\ pure_results = [preprocess_text |-> Pending,
                       normalize_text |-> Pending,
                       generate_ngrams |-> Pending,
                       score_ab |-> Pending,
                       score_ba |-> Pending]
    /\ SemIdle
    /\ cos = [p \in VectorPairs |-> 50]
    /\ RdIdle
    /\ TfIdle
    /\ FmIdle
    /\ IoIdle

IsPending(call) == pure_args # NoCall /\ pure_results[call] = Pending

\* preprocess_text(text), content_comparator.py lines 13-25
CallPreprocessText ==
    /\ IsPending("preprocess_text")
    /\ pure_results' = [pure_results EXCEPT
                           !.preprocess_text = Returned(preprocess_text(pure_args.text))]
    /\ UNCHANGED pure_args
    /\ UNCHANGED <<semVars, rdVars, tfVars, fmVars, ioVars>>

\* PostMatcher.normalize_text(text), content_comporator_bert.py lines 49-54
CallNormalizeText ==
    /\ IsPending("normalize_text")
    /\ pure_results' = [pure_results EXCEPT
                           !.normalize_text =
                               IF NormalizeTextRaises(pure_args.text)
                               THEN Raised("TypeError")
                               ELSE Returned(normalize_text(pure_args.text))]
    /\ UNCHANGED pure_args
    /\ UNCHANGED <<semVars, rdVars, tfVars, fmVars, ioVars>>

\* generate_ngrams(processed_text, n), content_comparator.py lines 28-46, on
\* a text that preprocess_text returned
CallGenerateNgrams ==
    /\ IsPending("generate_ngrams")
    /\ pure_results' = [pure_results EXCEPT
                           !.generate_ngrams =
                               IF GenerateNgramsRaises(pure_args.n)
                               THEN Raised("ValueError")
                               ELSE Returned(generate_ngrams(preprocess_text(pure_args.text),
                                                             pure_args.n))]
    /\ UNCHANGED pure_args
    /\ UNCHANGED <<semVars, rdVars, tfVars, fmVars, ioVars>>

\* lines 125-126, 100-102 and 137-141: the score of the pair with the post
\* of text telegram_text on the Telegram side and the post of text
\* habr_content on the Habr side
PairScore(telegram_text, habr_content, weights) ==
    SimilarityScore(
        TelegramPostNgrams([id |-> 1, text |-> telegram_text], NGRAM_SIZE),
        HabrPostNgrams([title |-> <<"h">>, content |-> habr_content], NGRAM_SIZE),
        weights)

\* the pair (a, b) scored with a as the Telegram post and b as the Habr post
ScoreAB ==
    /\ IsPending("score_ab")
    /\ pure_results' = [pure_results EXCEPT
                           !.score_ab = Returned(PairScore(pure_args.a, pure_args.b,
                                                           pure_args.weights))]
    /\ UNCHANGED pure_args
    /\ UNCHANGED <<semVars, rdVars, tfVars, fmVars, ioVars>>

\* the same pair with the sides exchanged
ScoreBA ==
    /\ IsPending("score_ba")
    /\ pure_results' = [pure_results EXCEPT
                           !.score_ba = Returned(PairScore(pure_args.b, pure_args.a,
                                                           pure_args.weights))]
    /\ UNCHANGED pure_args
    /\ UNCHANGED <<semVars, rdVars, tfVars, fmVars, ioVars>>

PureNext ==
    \/ CallPreprocessText
    \/ CallNormalizeText
    \/ CallGenerateNgrams
    \/ ScoreAB
    \/ ScoreBA

PureSpec == PureInit /\ [][PureNext]_vars

\* DATA_DIR before the first call: any file may be there already
StorageInit ==
    /\ data_dir \in [FileNames -> {Absent, Corrupt, JsonFile(<<[id |-> 1]>>)}]
    /\ storage_result = Pending
    /\ SemIdle
    /\ cos = [p \in VectorPairs |-> 50]
    /\ RdIdle
    /\ TfIdle
    /\ FmIdle
    /\ PureIdle
    /\ TgIdle
    /\ MainIdle

StorageNext ==
    \/ SaveAsJson
    \/ ReadJson

StorageSpec == StorageInit /\ [][StorageNext]_vars

\* one call of get_posts_from_channel on a connected parser (lines 99-100)
TgInit ==
    /\ tg_history \in 0..MaxHistory
    /\ tg_limit \in 1..MaxBatch
    /\ tg_total_limit \in 0..MaxTotal
    /\ offset_id = 0
    /\ total_count_of_messages = 0
    /\ tg_posts = <<>>
    /\ tg_pc = "request"
    /\ SemIdle
    /\ cos = [p \in VectorPairs |-> 50]
    /\ RdIdle
    /\ TfIdle
    /\ FmIdle
    /\ PureIdle
    /\ StIdle
    /\ MainIdle

TgNext ==
    \/ TgRequestHistory
    \/ TgWake

TgSpec == TgInit /\ [][TgNext]_vars

\* main.py lines 9-19: the names are read, no task runs yet
MainInit ==
    /\ main_pc = "init"
    /\ habr_pc = "idle"
    /\ html_pages = <<>>
    /\ articles = <<>>
    /\ tg_history \in 0..MaxHistory
    /\ tg_limit = DefaultLimit
    /\ tg_total_limit = DefaultPostLimit
    /\ offset_id = 0
    /\ total_count_of_messages = 0
    /\ tg_posts = <<>>
    /\ tg_pc = "idle"
    /\ SemIdle
    /\ cos = [p \in VectorPairs |-> 50]
    /\ RdIdle
    /\ TfIdle
    /\ FmIdle
    /\ PureIdle
    /\ StIdle

MainNext ==
    \/ MainCreateTasks
    \/ TgConnect
    \/ TgRequestHistory
    \/ TgWake
    \/ HabrFetchPages
    \/ HabrGetArticles
    \/ MainGatherRaises
    \/ MainStartMatching

MainSpec == MainInit /\ [][MainNext]_vars

(***************************************************************************)
(* Properties of the semantic path.                                        *)
(***************************************************************************)
Count(s, x) == Cardinality({k \in 1..Len(s) : s[k] = x})

MatchedTelegram == {k \in 1..Len(matched_habr) : matched_habr[k].telegram_index # 0}

MatchedPikabu == {k \in 1..Len(matched_habr) : matched_habr[k].pikabu_index # 0}

HabrScore(i, list, j) ==
    cosine_similarity(normalize_text(in_habr[i].content),
                      normalize_text(list[j].content))

\* C1: no Telegram post and no Pikabu post is the counterpart of more than
\* one matched record: two different records of matched_habr never name the
\* same counterpart index (nor the same counterpart post), and every index in
\* used_telegram / used_pikabu belongs to exactly one record.
C1_OneToOne ==
    /\ \A a, b \in MatchedTelegram :
          a # b => /\ matched_habr[a].telegram_index # matched_habr[b].telegram_index
                   /\ matched_habr[a].telegram # matched_habr[b].telegram
    /\ \A a, b \in MatchedPikabu :
          a # b => /\ matched_habr[a].pikabu_index # matched_habr[b].pikabu_index
                   /\ matched_habr[a].pikabu # matched_habr[b].pikabu
    /\ \A j \in used_telegram :
          Cardinality({k \in MatchedTelegram : matched_habr[k].telegram_index = j}) = 1
    /\ \A j \in used_pikabu :
          Cardinality({k \in MatchedPikabu : matched_habr[k].pikabu_index = j}) = 1

\* two Habr posts both reach the threshold against the only Telegram post, which
\* the first has taken: the second was scanned with that post already used
C1_Witness ==
    /\ ma_pc = "done"
    /\ Len(in_habr) = 2
    /\ Len(telegram_posts) = 1
    /\ HabrScore(1, telegram_posts, 1) >= threshold_match
    /\ HabrScore(2, telegram_posts, 1) >= threshold_match
    /\ used_telegram = {1}
    /\ Len(matched_habr) = 1

\* a post of list is in exactly one of: the counterparts of matched_habr (side
\* "telegram" or "pikabu"), the unmatched list of its source
CounterpartOf(m, side) == IF side = "telegram" THEN m.telegram ELSE m.pikabu

InExactlyOne(list, side, unmatched) ==
    /\ \A k \in 1..Len(list) :
          Cardinality({m \in 1..Len(matched_habr) :
                          CounterpartOf(matched_habr[m], side) = <<list[k]>>})
            + Count(unmatched, list[k]) = 1
    /\ Range(unmatched) \subseteq Range(list)
    /\ \A m \in 1..Len(matched_habr) :
          CounterpartOf(matched_habr[m], side) # <<>> =>
              CounterpartOf(matched_habr[m], side)[1] \in Range(list)

HabrInExactlyOne ==
    /\ \A k \in 1..Len(in_habr) :
          Cardinality({m \in 1..Len(matched_habr) : matched_habr[m].habr = in_habr[k]})
            + Count(unmatched_habr, in_habr[k]) = 1
    /\ Range(unmatched_habr) \subseteq Range(in_habr)
    /\ \A m \in 1..Len(matched_habr) : matched_habr[m].habr \in Range(in_habr)

\* C3 as stated: after match_all_posts every post of the three input lists is
\* in exactly one of {matched, unmatched}, and matched with unmatched is all
\* the input posts.
C3_InputPartition ==
    ma_pc = "done" =>
        /\ HabrInExactlyOne
        /\ InExactlyOne(in_telegram, "telegram", unmatched_telegram)
        /\ InExactlyOne(in_pikabu, "pikabu", unmatched_pikabu)

\* C3 amended: after match_all_posts every Habr input post and every post of
\* the deduplicated Telegram and Pikabu lists is in exactly one of {matched,
\* unmatched}; an input post that remove_duplicates dropped is in neither.
C3_DedupedPartition ==
    ma_pc = "done" =>
        /\ HabrInExactlyOne
        /\ InExactlyOne(telegram_posts, "telegram", unmatched_telegram)
        /\ InExactlyOne(pikabu_posts, "pikabu", unmatched_pikabu)
        /\ \A k \in 1..Len(in_telegram) :
              in_telegram[k] \notin Range(telegram_posts) =>
                  /\ in_telegram[k] \notin Range(unmatched_telegram)
                  /\ \A m \in 1..Len(matched_habr) :
                        matched_habr[m].telegram # <<in_telegram[k]>>
        /\ \A k \in 1..Len(in_pikabu) :
              in_pikabu[k] \notin Range(pikabu_posts) =>
                  /\ in_pikabu[k] \notin Range(unmatched_pikabu)
                  /\ \A m \in 1..Len(matched_habr) :
                        matched_habr[m].pikabu # <<in_pikabu[k]>>

\* a run that dropped a Telegram duplicate and matched a Habr post to the
\* survivor
C3_Witness ==
    /\ ma_pc = "done"
    /\ Len(in_telegram) = 2
    /\ Len(telegram_posts) = 1
    /\ MatchedTelegram # {}
    /\ unmatched_telegram = <<>>

\* the scenario of C5: two principal posts, one counterpart post, both scores
\* at or above the threshold
TwoForOne ==
    /\ Len(in_habr) = 2
    /\ Len(in_telegram) = 1
    /\ in_pikabu = <<>>
    /\ HabrScore(1, in_telegram, 1) >= threshold_match
    /\ HabrScore(2, in_telegram, 1) >= threshold_match

OnlyMatch(i) ==
    /\ Len(matched_habr) = 1
    /\ matched_habr[1].habr = in_habr[i]
    /\ matched_habr[1].telegram = <<in_telegram[1]>>
    /\ matched_habr[1].telegram_similarity = HabrScore(i, in_telegram, 1)
    /\ unmatched_habr = <<in_habr[3 - i]>>
    /\ unmatched_telegram = <<>>

\* C5 as stated: of two principal posts that both reach the threshold against
\* the only counterpart, the higher-scoring one is matched and the other is
\* unmatched, whatever their order in the principal list.
C5_HigherScoringWins ==
    (ma_pc = "done" /\ TwoForOne) =>
        /\ HabrScore(1, in_telegram, 1) > HabrScore(2, in_telegram, 1) => OnlyMatch(1)
        /\ HabrScore(2, in_telegram, 1) > HabrScore(1, in_telegram, 1) => OnlyMatch(2)

\* C5 amended: of two principal posts that both reach the threshold against
\* the only counterpart, the one that comes first in the principal list is
\* matched, with its own score, and the other is unmatched, whichever of the
\* two scores higher.
C5_FirstInListWins ==
    (ma_pc = "done" /\ TwoForOne) => OnlyMatch(1)

\* the second principal post scores higher and still stays unmatched
C5_Witness ==
    /\ ma_pc = "done"
    /\ TwoForOne
    /\ HabrScore(2, in_telegram, 1) > HabrScore(1, in_telegram, 1)
    /\ OnlyMatch(1)

\* the embedding of a post: what the provider returns for its normalised text
EmbeddingOf(post) == normalize_text(post.content)

\* C30: in match_all_posts the embedding compared for counterpart index j is
\* the embedding of the j-th post of the deduplicated counterpart list: the
\* embedding lists are aligned with the deduplicated lists, and the post and
\* the similarity of a matched record are those of the post at the recorded
\* index of the deduplicated list.
C30_EmbeddingsOfDedupedLists ==
    ma_pc \in {"match", "done"} =>
        /\ telegram_embeddings = [j \in 1..Len(telegram_posts) |-> EmbeddingOf(telegram_posts[j])]
        /\ pikabu_embeddings = [j \in 1..Len(pikabu_posts) |-> EmbeddingOf(pikabu_posts[j])]
        /\ habr_embeddings = [j \in 1..Len(habr_posts) |-> EmbeddingOf(habr_posts[j])]
        /\ \A m \in MatchedTelegram :
              /\ matched_habr[m].telegram_index \in 1..Len(telegram_posts)
              /\ matched_habr[m].telegram
                   = <<telegram_posts[matched_habr[m].telegram_index]>>
              /\ matched_habr[m].telegram_similarity
                   = cosine_similarity(EmbeddingOf(matched_habr[m].habr),
                                       EmbeddingOf(matched_habr[m].telegram[1]))
        /\ \A m \in MatchedPikabu :
              /\ matched_habr[m].pikabu_index \in 1..Len(pikabu_posts)
              /\ matched_habr[m].pikabu
                   = <<pikabu_posts[matched_habr[m].pikabu_index]>>
              /\ matched_habr[m].pikabu_similarity
                   = cosine_similarity(EmbeddingOf(matched_habr[m].habr),
                                       EmbeddingOf(matched_habr[m].pikabu[1]))

\* remove_duplicates dropped the first of two Telegram posts; the Habr post
\* is matched to the second, now at index 1, with the similarity of the
\* second, which the first does not have
C30_Witness ==
    /\ ma_pc = "done"
    /\ Len(in_telegram) = 2
    /\ telegram_posts = <<in_telegram[2]>>
    /\ Len(matched_habr) = 1
    /\ matched_habr[1].telegram_index = 1
    /\ matched_habr[1].telegram = <<in_telegram[2]>>
    /\ cosine_similarity(EmbeddingOf(matched_habr[1].habr), EmbeddingOf(in_telegram[1]))
          # matched_habr[1].telegram_similarity

\* C24: within one run of match_all_posts no post's text is handed to the
\* embedding provider more than once.
C24_EncodedAtMostOnce ==
    \A k \in 1..Len(encode_requests) : Count(encode_requests, encode_requests[k]) = 1

\* C25: save_as_json and read_json raise ValueError exactly for the labels
\* outside 'habr', 'pikabu' and 'telegram': each of the three is accepted,
\* every other label is rejected (a call that fails earlier, on the creation
\* of the data directory, aside).
C25_ValueErrorIffUnsupported ==
    (storage_result.status \in {"returned", "raised"}
       /\ ~(storage_result.status = "raised" /\ storage_result.error = "OSError")) =>
        ((storage_result.status = "raised" /\ storage_result.error = "ValueError")
            <=> ~LabelAllowedAsAnnotated(storage_result.label))

\* C28: a call of get_posts_from_channel with total_limit > 0 never
\* collects more than total_limit messages, whatever the batch size and the
\* channel history; with total_limit = 0 it returns only after the server
\* has answered with an empty batch, that is with the whole history.
C28_TotalLimitRespected ==
    /\ tg_total_limit > 0 =>
          /\ total_count_of_messages <= tg_total_limit
          /\ Len(tg_posts) <= tg_total_limit
    /\ (tg_total_limit = 0 /\ tg_pc = "returned") =>
          tg_posts = [k \in 1..tg_history |-> tg_history - k + 1]

(***************************************************************************)
(* Properties of remove_duplicates.                                        *)
(***************************************************************************)
\* C4: deduplication is idempotent: remove_duplicates applied to its own
\* output returns that same output.
C4_Idempotent ==
    (rd_pc = "returned" /\ rd_run = 2) => filtered_posts = rd_first

PairwiseSimilar(ps) ==
    \A a, b \in 1..Len(ps) :
        a # b => cosine_similarity(normalize_text(ps[a].content),
                                   normalize_text(ps[b].content)) > threshold_duplicate

\* a missing views value counts as 0
ViewsOf(p) == IF HasViews(p) THEN ViewsOrZero(p) ELSE 0

IsRepresentative(ps, k) ==
    /\ \A a \in 1..Len(ps) : ViewsOf(ps[a]) <= ViewsOf(ps[k])
    /\ \A a \in 1..(k - 1) : ViewsOf(ps[a]) < ViewsOf(ps[k])

\* C8: for a (non-empty) list of posts that are pairwise similar above the
\* duplicate threshold remove_duplicates returns exactly one post, the one
\* with the highest views, a missing views value counting as 0 and ties going
\* to the earliest index.
C8_OneRepresentative ==
    (rd_pc = "returned" /\ posts # <<>> /\ PairwiseSimilar(posts)) =>
        /\ Len(filtered_posts) = 1
        /\ \E k \in 1..Len(posts) :
              IsRepresentative(posts, k) /\ filtered_posts[1] = posts[k]

\* views 10, 50, 5, pairwise similar: the post with 50 views is what is left
C8_Witness ==
    /\ rd_pc = "returned"
    /\ rd_run = 1
    /\ Len(posts) = 3
    /\ PairwiseSimilar(posts)
    /\ \A k \in 1..3 : HasViews(posts[k])
    /\ posts[1].views = <<10>>
    /\ posts[2].views = <<50>>
    /\ posts[3].views = <<5>>
    /\ posts[1].content # posts[2].content
    /\ filtered_posts = <<posts[2]>>

\* C15: a failure of the embedding provider during match_all_posts, in the
\* deduplication of either counterpart list or in the embedding of any of
\* the three lists, ends the run with the error: nothing matched or
\* unmatched is returned and start hands nothing to save_to_excel.
C15_ProviderFailureAborts ==
    provider_failed =>
        /\ ma_pc = "raised"
        /\ saved = NotSaved
        /\ matched_habr = <<>>
        /\ unmatched_habr = <<>>
        /\ unmatched_telegram = <<>>
        /\ unmatched_pikabu = <<>>

\* the provider failed after the Telegram list had been deduplicated, with
\* posts in all three lists
C15_Witness ==
    /\ provider_failed
    /\ ma_pc = "raised"
    /\ Len(in_telegram) = 2
    /\ Len(telegram_posts) = 1
    /\ in_habr # <<>>

\* C17: match_all_posts and the remove_duplicates it calls leave the lists
\* of the caller as they were passed: the same posts in the same order, each
\* with the same fields.
C17_InputsNotMutated ==
    [][/\ in_habr' = in_habr
       /\ in_telegram' = in_telegram
       /\ in_pikabu' = in_pikabu]_vars

\* remove_duplicates dropped a post of the Pikabu list, the run ended, and
\* the list of the caller still has its two posts
C17_Witness ==
    /\ ma_pc = "done"
    /\ saved # NotSaved
    /\ Len(in_pikabu) = 2
    /\ Len(pikabu_posts) = 1
    /\ Len(in_habr) = 1

\* posts i and j of the list are duplicates of each other
Similar(i, j) ==
    /\ i # j
    /\ cosine_similarity(normalize_text(posts[i].content),
                         normalize_text(posts[j].content)) > threshold_duplicate

\* the posts connected to those of S by a chain of duplicates
RECURSIVE ChainFrom(_)
ChainFrom(S) ==
    LET T == S \cup {j \in 1..Len(posts) : \E i \in S : Similar(i, j)}
    IN  IF T = S THEN S ELSE ChainFrom(T)

\* C18: of the posts connected by a chain of pairwise similarities above
\* threshold_duplicate, exactly one is in the list remove_duplicates returns.
C18_ChainsCollapse ==
    rd_pc = "returned" /\ rd_run = 1 =>
        \A i \in 1..Len(posts) :
            Cardinality({k \in ChainFrom({i}) : posts[k] \in Range(filtered_posts)}) = 1

\* the anchors among the posts before position n: a post is an anchor when
\* no earlier anchor is similar to it above threshold_duplicate
RECURSIVE AnchorsBelow(_)
AnchorsBelow(n) ==
    IF n <= 1 THEN {}
    ELSE LET A == AnchorsBelow(n - 1)
         IN  IF \E a \in A : Similar(a, n - 1) THEN A ELSE A \cup {n - 1}

\* the cluster of an anchor: the anchor and the later posts similar to it
\* that no earlier anchor had taken
ClusterOf(a) ==
    {a} \cup {j \in (a + 1)..Len(posts) :
                Similar(a, j) /\ \A b \in AnchorsBelow(a) : ~Similar(b, j)}

\* the k-th anchor in input order
NthAnchor(k) ==
    LET A == AnchorsBelow(Len(posts) + 1)
    IN  CHOOSE a \in A : Cardinality({b \in A : b < a}) = k - 1

\* C23: the output of remove_duplicates is in the order of the cluster
\* anchors: at every step of the scan and at the return, filtered_posts has
\* one post for each anchor met so far, and its k-th post is a post of the
\* cluster of the k-th anchor in input order, for Telegram and Pikabu lists.
C23_OrderOfAnchors ==
    rd_pc \in {"scan", "returned"} =>
        /\ Len(filtered_posts) = Cardinality(AnchorsBelow(di))
        /\ \A k \in 1..Len(filtered_posts) :
              \E j \in ClusterOf(NthAnchor(k)) : filtered_posts[k] = posts[j]

\* the first and the third post are duplicates and the third has more
\* views: it is returned before the second post
C23_Witness ==
    /\ rd_pc = "returned"
    /\ rd_run = 1
    /\ Len(posts) = 3
    /\ Similar(1, 3)
    /\ ~Similar(1, 2)
    /\ ~Similar(2, 3)
    /\ filtered_posts = <<posts[3], posts[2]>>

\* C29: remove_duplicates returns only input posts and no input position
\* twice: at every step of the scan each post of the output is an input post
\* and is there once, every position already visited that is neither an
\* anchor nor in the output has been marked seen, and the output is not
\* longer than the input; a non-empty input gives a non-empty output.
C29_OutputWithinInput ==
    rd_pc \in {"scan", "returned"} =>
        /\ \A k \in 1..Len(filtered_posts) :
              /\ filtered_posts[k] \in Range(posts)
              /\ Count(filtered_posts, filtered_posts[k]) = 1
        /\ \A i \in 1..(di - 1) :
              (i \notin AnchorsBelow(di) /\ posts[i] \notin Range(filtered_posts))
                  => i \in seen
        /\ Len(filtered_posts) <= Len(posts)
        /\ (rd_pc = "returned" /\ posts # <<>>) => filtered_posts # <<>>

\* the first two posts are duplicates and the second has more views: the
\* anchor is dropped without being marked, its duplicate and the third post
\* are returned
C29_Witness ==
    /\ rd_pc = "returned"
    /\ rd_run = 1
    /\ Len(posts) = 3
    /\ Similar(1, 2)
    /\ ~Similar(1, 3)
    /\ filtered_posts = <<posts[2], posts[3]>>
    /\ seen = {2, 3}

(***************************************************************************)
(* Properties of compute_tfidf_weights.                                    *)
(***************************************************************************)
NgramList(document) ==
    generate_ngrams(preprocess_text(DocumentText(document)), NGRAM_SIZE)

\* the number of documents that contain the gram
DocumentFrequency(g) ==
    Cardinality({k \in 1..Len(documents) : g \in Range(NgramList(documents[k]))})

\* C10: compute_tfidf_weights maps every n-gram that occurs in at least one
\* document (and no other) to ln(N / (df + 1)), N the number of documents and
\* df the number of documents that contain the gram, each counted once; the
\* weight is positive iff df < N - 1, zero iff df = N - 1, negative iff df = N.
C10_IdfWeights ==
    tf_pc = "done" =>
        /\ DOMAIN idf_weights = UNION {Range(NgramList(documents[k])) : k \in 1..Len(documents)}
        /\ \A g \in DOMAIN idf_weights :
              LET N == Len(documents)
                  df == DocumentFrequency(g)
              IN  /\ df \in 1..N
                  /\ idf_weights[g] = LnTable[N] - LnTable[df + 1]
                  /\ idf_weights[g] > 0 <=> df < N - 1
                  /\ idf_weights[g] = 0 <=> df = N - 1
                  /\ idf_weights[g] < 0 <=> df = N

\* three documents, one of which repeats a gram; the weights returned have
\* all three signs
C10_Witness ==
    /\ tf_pc = "done"
    /\ Len(documents) = 3
    /\ \E k \in 1..3 : \E g \in Range(NgramList(documents[k])) :
          /\ Occurrences(NgramList(documents[k]), g) > 1
          /\ idf_weights[g] > 0
    /\ \E g \in DOMAIN idf_weights : idf_weights[g] = 0
    /\ \E g \in DOMAIN idf_weights : idf_weights[g] < 0

(***************************************************************************)
(* Properties of find_matching_posts.                                      *)
(***************************************************************************)
\* C2: in the list returned by find_matching_posts every Telegram post id
\* appears in at most one match and every Habr post, identified by title and
\* date, appears in at most one match.
C2_UniqueMatches ==
    \A a, b \in 1..Len(unique_matches) :
        a # b =>
            /\ unique_matches[a].telegram_id # unique_matches[b].telegram_id
            /\ <<unique_matches[a].habr_title, unique_matches[a].habr_date>>
                 # <<unique_matches[b].habr_title, unique_matches[b].habr_date>>

\* two Habr posts had the same Telegram post as their best accepted
\* candidate, and one match was returned
C2_Witness ==
    /\ fm_pc = "done"
    /\ Len(habr_post_to_best_match) = 2
    /\ habr_post_to_best_match[1].telegram_id = habr_post_to_best_match[2].telegram_id
    /\ Len(unique_matches) = 1

\* the Habr posts with the key of a tested candidate that share an n-gram
\* with the Telegram post of the test
PostsOfTest(e) ==
    {h \in 1..Len(lex_habr_posts) :
        /\ HabrPostKey(lex_habr_posts[h]) = e.key
        /\ HabrPostNgrams(lex_habr_posts[h], NGRAM_SIZE)
             \cap TelegramPostNgrams(lex_telegram_posts[e.telegram], NGRAM_SIZE) # {}}

\* C6: a candidate (Telegram post t, Habr post h) is accepted exactly when
\* score(t, h) >= max(60, 0.9 * min(|ngrams(t)|, |ngrams(h)|)), the n-gram
\* sets being those of the pair that is tested.
C6_ThresholdOfTestedPair ==
    \A e \in threshold_tests :
        \A h \in PostsOfTest(e) :
            PostsOfTest(e) = {h} =>
                LET tn == Cardinality(TelegramPostNgrams(lex_telegram_posts[e.telegram], NGRAM_SIZE))
                    hn == Cardinality(HabrPostNgrams(lex_habr_posts[h], NGRAM_SIZE))
                IN  e.accepted <=> (e.score >= Max2(MIN_ABSOLUTE_THRESHOLD,
                                                   MIN_RELATIVE_THRESHOLD * Min2(tn, hn)))

BestScoreOf(key) ==
    IF \E k \in 1..Len(habr_post_to_best_match) : habr_post_to_best_match[k].key = key
    THEN habr_post_to_best_match[KeyPosition(habr_post_to_best_match, key)].score
    ELSE -1

UsedBefore(i, side) ==
    {(IF side = "telegram" THEN matched_habr[m].telegram_index
      ELSE matched_habr[m].pikabu_index) :
        m \in {k \in 1..Len(matched_habr) : matched_habr[k].habr.title < i}} \ {0}

\* the record of matched_habr for the Habr post at position i, if any
RecordsOf(i) == {m \in 1..Len(matched_habr) : matched_habr[m].habr = habr_posts[i]}

AtThreshold(i, side) ==
    LET list == IF side = "telegram" THEN telegram_posts ELSE pikabu_posts
    IN  {j \in (1..Len(list)) \ UsedBefore(i, side) :
            cosine_similarity(normalize_text(habr_posts[i].content),
                              normalize_text(list[j].content)) = threshold_match}

SemanticBoundary(side) ==
    \A i \in 1..Len(habr_posts) :
        AtThreshold(i, side) # {} =>
            \E m \in RecordsOf(i) :
                LET index == IF side = "telegram" THEN matched_habr[m].telegram_index
                             ELSE matched_habr[m].pikabu_index
                    similarity == IF side = "telegram" THEN matched_habr[m].telegram_similarity
                                  ELSE matched_habr[m].pikabu_similarity
                IN  /\ index # 0
                    /\ similarity >= threshold_match
                    /\ similarity = threshold_match => index \in AtThreshold(i, side)

\* C7: a pair whose score is exactly equal to the acceptance threshold is
\* accepted.  Lexical matcher: a candidate whose score equals the computed
\* similarity_threshold passes the test of line 156 and is in
\* habr_post_to_best_match (itself or a better one).  Semantic matcher: a Habr
\* post with a not yet used counterpart at cosine similarity exactly
\* threshold_match gets a counterpart from that list, that very post unless
\* another one scores higher.
C7_BoundaryAccepted ==
    /\ \A e \in threshold_tests :
          e.score = e.similarity_threshold =>
              /\ e.accepted
              /\ BestScoreOf(e.key) >= e.score
    /\ ma_pc = "done" => SemanticBoundary("telegram") /\ SemanticBoundary("pikabu")

\* both matchers have accepted a pair that sits exactly on its threshold
C7_Witness ==
    /\ \E e \in threshold_tests :
          /\ e.score = e.similarity_threshold
          /\ BestScoreOf(e.key) = e.score
    /\ ma_pc = "done"
    /\ AtThreshold(1, "telegram") # {}
    /\ Len(matched_habr) = 1
    /\ matched_habr[1].telegram_similarity = threshold_match
    /\ matched_habr[1].pikabu_similarity = threshold_match

\* the pairs (Telegram post t, Habr post h) already scored whose normalised
\* texts are identical and have at least one n-gram
IdenticalPairs ==
    {p \in (1..Len(lex_telegram_posts)) \X (1..Len(lex_habr_posts)) :
        /\ fm_pc \in {"score", "done"}
        /\ p[1] < tpi
        /\ preprocess_text(Get(lex_telegram_posts[p[1]], "text", <<>>))
             = preprocess_text(Or(Get(lex_habr_posts[p[2]], "content", <<>>),
                                  Get(lex_habr_posts[p[2]], "title", <<>>)))
        /\ TelegramPostNgrams(lex_telegram_posts[p[1]], NGRAM_SIZE) # {}}

TestsOfPair(p) ==
    {e \in threshold_tests :
        e.telegram = p[1] /\ e.key = HabrPostKey(lex_habr_posts[p[2]])}

SumOfAllNgrams(p) ==
    SumWeights(TelegramPostNgrams(lex_telegram_posts[p[1]], NGRAM_SIZE), tfidf_weights)

OnlyPostWithItsKey(h) ==
    \A k \in 1..Len(lex_habr_posts) :
        HabrPostKey(lex_habr_posts[k]) = HabrPostKey(lex_habr_posts[h]) => k = h

\* C9 as stated: for two posts with identical normalised text the score is
\* the sum of the weights of all n-grams of the text, and the pair is
\* accepted whenever that sum is >= 60, for every n-gram set size.
C9_AcceptedFrom60 ==
    \A p \in IdenticalPairs :
        /\ TestsOfPair(p) # {}
        /\ \A e \in TestsOfPair(p) :
              /\ OnlyPostWithItsKey(p[2]) => e.score = SumOfAllNgrams(p)
              /\ SumOfAllNgrams(p) >= 60000 => e.accepted

\* C9 amended: for two posts with identical normalised text the score is the
\* sum of the weights of all n-grams of the text (of the best post, where
\* several Habr posts share title and date), and the pair is accepted
\* whenever that sum is >= max(60, 0.9 * number of n-grams of the text).
C9_AcceptedFromThreshold ==
    \A p \in IdenticalPairs :
        /\ TestsOfPair(p) # {}
        /\ \A e \in TestsOfPair(p) :
              /\ e.score >= SumOfAllNgrams(p)
              /\ OnlyPostWithItsKey(p[2]) => e.score = SumOfAllNgrams(p)
              /\ SumOfAllNgrams(p) >= Max2(MIN_ABSOLUTE_THRESHOLD,
                     MIN_RELATIVE_THRESHOLD
                       * Cardinality(TelegramPostNgrams(lex_telegram_posts[p[1]], NGRAM_SIZE)))
                   => /\ e.accepted
                      /\ BestScoreOf(e.key) >= SumOfAllNgrams(p)

\* two posts whose texts differ only in case and punctuation, with more than
\* 66 n-grams, accepted with a sum above 0.9 times their number
C9_Witness ==
    \E p \in IdenticalPairs :
        /\ Get(lex_telegram_posts[p[1]], "text", <<>>) # lex_habr_posts[p[2]].content
        /\ Cardinality(TelegramPostNgrams(lex_telegram_posts[p[1]], NGRAM_SIZE)) > 66
        /\ \E e \in TestsOfPair(p) :
              /\ e.accepted
              /\ e.score = SumOfAllNgrams(p)
              /\ e.score > 60000

\* C12: a record for which the scoring of a post raises (a Habr record of
\* the index without a 'title' key) is skipped and find_matching_posts goes
\* on to return the matches of the other posts: the exception never ends the
\* batch.
C12_MalformedRecordSkipped == fm_pc # "KeyError"

\* the posts of one counterpart list not claimed when the Habr post at i is
\* processed that reach threshold_match and that no such post exceeds
BestUnclaimed(i, side) ==
    LET list == IF side = "telegram" THEN telegram_posts ELSE pikabu_posts
        unclaimed == (1..Len(list)) \ UsedBefore(i, side)
    IN  {j \in unclaimed :
            /\ HabrScore(i, list, j) >= threshold_match
            /\ \A k \in unclaimed : HabrScore(i, list, k) <= HabrScore(i, list, j)}

\* the counterpart selected for the Habr post at i: [index, similarity]
Selected(i, side) ==
    IF RecordsOf(i) = {} THEN [index |-> 0, similarity |-> 0]
    ELSE LET m == CHOOSE m \in RecordsOf(i) : TRUE
         IN  IF side = "telegram"
             THEN [index |-> matched_habr[m].telegram_index,
                   similarity |-> matched_habr[m].telegram_similarity]
             ELSE [index |-> matched_habr[m].pikabu_index,
                   similarity |-> matched_habr[m].pikabu_similarity]

\* C19: for each Habr post and each counterpart list, the counterpart
\* selected is the post of maximal cosine similarity among those not claimed
\* at that moment, if that maximum is >= threshold_match, the one of lowest
\* index among equals; if no unclaimed post reaches the threshold none is
\* selected.
C19_BestUnclaimedSelected ==
    ma_pc = "done" =>
        \A i \in 1..Len(habr_posts) : \A side \in {"telegram", "pikabu"} :
            LET list == IF side = "telegram" THEN telegram_posts ELSE pikabu_posts
                best == BestUnclaimed(i, side)
            IN  IF best = {}
                THEN Selected(i, side).index = 0
                ELSE /\ Selected(i, side).index \in best
                     /\ \A j \in best : Selected(i, side).index <= j
                     /\ Selected(i, side).similarity
                          = HabrScore(i, list, Selected(i, side).index)

\* two Telegram posts equally similar to the Habr post, above the
\* threshold: the first is selected
C19_Witness ==
    /\ ma_pc = "done"
    /\ Len(habr_posts) = 1
    /\ Len(telegram_posts) = 2
    /\ BestUnclaimed(1, "telegram") = {1, 2}
    /\ Selected(1, "telegram").index = 1

\* the indices of one counterpart list that some record of matched_habr names
Claimed(side) ==
    {(IF side = "telegram" THEN matched_habr[m].telegram_index
      ELSE matched_habr[m].pikabu_index) : m \in 1..Len(matched_habr)} \ {0}

\* the posts of a list at the indices outside a set, in list order
PostsOutside(list, claimed) ==
    LET free == (1..Len(list)) \ claimed
    IN  [k \in 1..Cardinality(free) |->
            list[CHOOSE j \in free : Cardinality({a \in free : a < j}) = k - 1]]

\* the Habr posts for which neither list has an unclaimed post at the threshold
WithoutCounterpart ==
    {i \in 1..Len(habr_posts) :
        BestUnclaimed(i, "telegram") = {} /\ BestUnclaimed(i, "pikabu") = {}}

\* C22: after match_all_posts, relative to the deduplicated lists,
\* unmatched_telegram and unmatched_pikabu are the posts whose index no
\* record claims, in list order; a Habr post is in unmatched_habr (once, in
\* list order) exactly when no counterpart was selected for it in either
\* list, and is in matched once otherwise; a record with a counterpart in one
\* list only has the other side empty with similarity 0.
C22_UnmatchedAreTheUnclaimed ==
    ma_pc = "done" =>
        /\ unmatched_telegram = PostsOutside(telegram_posts, Claimed("telegram"))
        /\ unmatched_pikabu = PostsOutside(pikabu_posts, Claimed("pikabu"))
        /\ unmatched_habr = PostsOutside(habr_posts, (1..Len(habr_posts)) \ WithoutCounterpart)
        /\ \A i \in 1..Len(habr_posts) :
              /\ Cardinality(RecordsOf(i)) = (IF i \in WithoutCounterpart THEN 0 ELSE 1)
              /\ \A side \in {"telegram", "pikabu"} :
                    BestUnclaimed(i, side) = {} <=> Selected(i, side).index = 0
        /\ \A m \in 1..Len(matched_habr) :
              /\ matched_habr[m].telegram_index = 0 =>
                    /\ matched_habr[m].telegram = <<>>
                    /\ matched_habr[m].telegram_similarity = 0
              /\ matched_habr[m].pikabu_index = 0 =>
                    /\ matched_habr[m].pikabu = <<>>
                    /\ matched_habr[m].pikabu_similarity = 0
              /\ matched_habr[m].telegram_index # 0 \/ matched_habr[m].pikabu_index # 0

\* a Habr post with a Telegram counterpart and none among the Pikabu posts:
\* it is matched with the Pikabu side empty, and the Pikabu post is unmatched
C22_Witness ==
    /\ ma_pc = "done"
    /\ Len(habr_posts) = 1
    /\ Len(pikabu_posts) = 1
    /\ Len(matched_habr) = 1
    /\ matched_habr[1].telegram_index = 1
    /\ matched_habr[1].pikabu = <<>>
    /\ matched_habr[1].pikabu_similarity = 0
    /\ unmatched_pikabu = pikabu_posts
    /\ unmatched_telegram = <<>>
    /\ unmatched_habr = <<>>

\* the entries of habr_post_to_best_match whose candidate is the Telegram post id
CandidatesFor(id) ==
    {b \in 1..Len(habr_post_to_best_match) : habr_post_to_best_match[b].telegram_id = id}

\* the entries of habr_post_to_best_match that are not in the returned list
Skipped ==
    {b \in 1..Len(habr_post_to_best_match) :
        \A m \in 1..Len(unique_matches) :
            <<unique_matches[m].habr_title, unique_matches[m].habr_date>>
              # habr_post_to_best_match[b].key}

\* C20: when several Habr posts have the same Telegram post as their best
\* accepted candidate, the candidates are taken in descending order of
\* score: the returned list is in that order, the match returned for a
\* Telegram post has the highest score of its candidates, and every skipped
\* candidate lost to a returned match of the same Telegram post with a score
\* that is not lower.
C20_HighestScoreGetsTelegramPost ==
    fm_pc = "done" =>
        /\ \A a, b \in 1..Len(unique_matches) :
              a < b => unique_matches[a].score >= unique_matches[b].score
        /\ \A m \in 1..Len(unique_matches) :
              \A b \in CandidatesFor(unique_matches[m].telegram_id) :
                  habr_post_to_best_match[b].score <= unique_matches[m].score
        /\ \A b \in Skipped :
              \E m \in 1..Len(unique_matches) :
                  /\ unique_matches[m].telegram_id = habr_post_to_best_match[b].telegram_id
                  /\ unique_matches[m].score >= habr_post_to_best_match[b].score

\* two Habr posts have the same Telegram post as best candidate, the one
\* entered first with the lower score: the other one is returned
C20_Witness ==
    /\ fm_pc = "done"
    /\ Len(habr_post_to_best_match) = 2
    /\ habr_post_to_best_match[1].telegram_id = habr_post_to_best_match[2].telegram_id
    /\ habr_post_to_best_match[1].score < habr_post_to_best_match[2].score
    /\ Len(unique_matches) = 1
    /\ unique_matches[1].habr_title = habr_post_to_best_match[2].habr_title
    /\ Skipped = {1}

\* the accepted candidates of the Habr posts with one key
AcceptedTests(key) == {e \in threshold_tests : e.key = key /\ e.accepted}

\* the keys of the Habr posts that have an accepted candidate
AcceptedKeys == {e.key : e \in {t \in threshold_tests : t.accepted}}

\* the accepted candidate of highest score, the one processed first among equals
TopCandidate(key) ==
    CHOOSE e \in AcceptedTests(key) :
        \A f \in AcceptedTests(key) :
            \/ f.score < e.score
            \/ f.score = e.score /\ e.telegram <= f.telegram

\* the entries of habr_post_to_best_match under one key
EntriesOf(key) ==
    {b \in 1..Len(habr_post_to_best_match) : habr_post_to_best_match[b].key = key}

\* the returned matches of the Habr posts with one key
ReturnedFor(key) ==
    {m \in 1..Len(unique_matches) :
        <<unique_matches[m].habr_title, unique_matches[m].habr_date>> = key}

\* C21: for each Habr post (each key of title and date) find_matching_posts
\* keeps one candidate, the accepted Telegram post of highest score, the one
\* processed first among equals; every returned match pairs the Habr post
\* with that candidate, and a Habr post whose candidate is returned for
\* another Habr post is not returned at all, whatever other candidates it had.
C21_OnlyTopCandidateKept ==
    /\ fm_pc \in {"score", "done"} =>
          /\ {habr_post_to_best_match[b].key : b \in 1..Len(habr_post_to_best_match)}
                = AcceptedKeys
          /\ \A key \in AcceptedKeys :
                /\ Cardinality(EntriesOf(key)) = 1
                /\ \A b \in EntriesOf(key) :
                      /\ habr_post_to_best_match[b].score = TopCandidate(key).score
                      /\ habr_post_to_best_match[b].telegram_id
                           = lex_telegram_posts[TopCandidate(key).telegram].id
    /\ fm_pc = "done" =>
          /\ \A m \in 1..Len(unique_matches) :
                \E b \in 1..Len(habr_post_to_best_match) :
                    unique_matches[m] = MatchTuple(habr_post_to_best_match[b])
          /\ \A key \in AcceptedKeys :
                (\E m \in 1..Len(unique_matches) :
                    /\ m \notin ReturnedFor(key)
                    /\ unique_matches[m].telegram_id
                         = lex_telegram_posts[TopCandidate(key).telegram].id)
                  => ReturnedFor(key) = {}

\* a Habr post with two accepted candidates of different scores loses the
\* better one to a Habr post of higher score: it is not returned, and its
\* other candidate is in no returned match
C21_Witness ==
    /\ fm_pc = "done"
    /\ Len(lex_telegram_posts) = 2
    /\ \E key \in AcceptedKeys :
          /\ Cardinality(AcceptedTests(key)) = 2
          /\ \E e \in AcceptedTests(key) : e.score < TopCandidate(key).score
          /\ ReturnedFor(key) = {}
          /\ Len(unique_matches) = 1
          /\ unique_matches[1].telegram_id = lex_telegram_posts[TopCandidate(key).telegram].id
          /\ unique_matches[1].score > TopCandidate(key).score

\* every habr_post_to_best_match that the Telegram posts from position k on
\* can leave, over the orders in which the loops of lines 131-133 may run
RECURSIVE PossibleBests(_, _)
PossibleBests(k, best) ==
    IF k > Len(lex_telegram_posts) THEN {best}
    ELSE LET ngrams == TelegramPostNgrams(lex_telegram_posts[k], NGRAM_SIZE)
         IN  IF ngrams \cap DOMAIN habr_ngram_index = {}
             THEN PossibleBests(k + 1, best)
             ELSE UNION {PossibleBests(k + 1,
                            BestAfterPost(best, lex_habr_posts, habr_ngram_index,
                                          tfidf_weights, lex_telegram_posts[k], order)) :
                         order \in LoopOrders(habr_ngram_index, ngrams)}

\* C26: for fixed inputs find_matching_posts returns the same set of
\* matches whatever the order in which the n-gram set of a Telegram post and
\* the entries of the index are iterated: the set returned is the set that
\* every other order of the loops would have returned.
C26_SameMatchesInEveryOrder ==
    fm_pc = "done" =>
        \A best \in PossibleBests(1, <<>>) :
            Range(UniqueMatches(SortByScore(best), 1, {})) = Range(unique_matches)

\* the number of tokens of a text once normalised
TokenCount(text) == Len(Split(preprocess_text(text)))

\* Telegram posts without a text field or with fewer than NGRAM_SIZE tokens
ShortTelegramPosts ==
    {k \in 1..Len(lex_telegram_posts) :
        TokenCount(Get(lex_telegram_posts[k], "text", <<>>)) < NGRAM_SIZE}

\* Habr posts whose content, or title where there is no content, is absent
\* or has fewer than NGRAM_SIZE tokens
ShortHabrPosts ==
    {h \in 1..Len(lex_habr_posts) :
        TokenCount(Or(Get(lex_habr_posts[h], "content", <<>>),
                      Get(lex_habr_posts[h], "title", <<>>))) < NGRAM_SIZE}

\* the Habr posts that share title and date with the post at h
SameKey(h) ==
    {k \in 1..Len(lex_habr_posts) :
        /\ ~HabrPostKeyRaises(lex_habr_posts[k])
        /\ HabrPostKey(lex_habr_posts[k]) = HabrPostKey(lex_habr_posts[h])}

\* C13: a post without any text field, or with fewer than n tokens, is
\* processed without raising, has an empty n-gram set and is in no accepted
\* match: a Telegram post is never a candidate nor in a returned match, a
\* Habr post is under no n-gram of the index and no match carries its title
\* and date unless another Habr post with text has the same; a KeyError comes
\* from a Habr record that has n-grams.
C13_ShortPostsNeverMatched ==
    /\ \A k \in ShortTelegramPosts :
          /\ TelegramPostNgrams(lex_telegram_posts[k], NGRAM_SIZE) = {}
          /\ ~(fm_pc = "KeyError" /\ tpi = k)
          /\ \A e \in threshold_tests : e.telegram # k
          /\ \A m \in 1..Len(unique_matches) : unique_matches[m].telegram_id # k
    /\ \A h \in ShortHabrPosts :
          /\ HabrPostNgrams(lex_habr_posts[h], NGRAM_SIZE) = {}
          /\ \A g \in DOMAIN habr_ngram_index : h \notin Range(habr_ngram_index[g])
          /\ ~HabrPostKeyRaises(lex_habr_posts[h]) /\ SameKey(h) \subseteq ShortHabrPosts =>
                /\ \A e \in threshold_tests : e.key # HabrPostKey(lex_habr_posts[h])
                /\ \A m \in 1..Len(unique_matches) :
                      <<unique_matches[m].habr_title, unique_matches[m].habr_date>>
                        # HabrPostKey(lex_habr_posts[h])
    /\ fm_pc = "KeyError" =>
          \E h \in (1..Len(lex_habr_posts)) \ ShortHabrPosts :
              HabrPostKeyRaises(lex_habr_posts[h])

\* a Telegram record without text and a Habr record with neither title nor
\* content went through the pass, which returned the match of the two other
\* posts
C13_Witness ==
    /\ fm_pc = "done"
    /\ Len(lex_telegram_posts) = 2
    /\ Len(lex_habr_posts) = 2
    /\ "text" \notin DOMAIN lex_telegram_posts[1]
    /\ DOMAIN lex_habr_posts[1] = {"date"}
    /\ Len(unique_matches) = 1
    /\ unique_matches[1].telegram_id = 2

(***************************************************************************)
(* Properties of single calls.                                             *)
(***************************************************************************)
HasReturned(call) == pure_args # NoCall /\ pure_results[call].status = "returned"

HasRaised(call) == pure_args # NoCall /\ pure_results[call].status = "raised"

\* C11: the lexical score of a pair of posts is the same whichever of the
\* two is taken as the Telegram post and whichever as the Habr post, for
\* every weight table.
C11_ScoreSymmetric ==
    HasReturned("score_ab") /\ HasReturned("score_ba") =>
        pure_results.score_ab.value = pure_results.score_ba.value

\* two posts that share one n-gram and have one n-gram each that the other
\* lacks, the three weights all different, scored both ways
C11_Witness ==
    /\ HasReturned("score_ab")
    /\ HasReturned("score_ba")
    /\ pure_args.a = <<"a", " ", "b", " ", "c", " ", "d">>
    /\ pure_args.b = <<"b", " ", "c", " ", "d", " ", "e">>
    /\ DOMAIN pure_args.weights = {Abc, Bcd, Cde}
    /\ pure_args.weights[Abc] # pure_args.weights[Cde]
    /\ pure_results.score_ab.value = pure_args.weights[Bcd]
    /\ pure_results.score_ba.value = pure_args.weights[Bcd]

\* C14: for empty or absent (None) input both normalisers, preprocess_text
\* and PostMatcher.normalize_text, return the empty string and do not raise.
C14_EmptyOrAbsentYieldsEmpty ==
    pure_args # NoCall /\ pure_args.text \in {None, <<>>} =>
        \A call \in {"preprocess_text", "normalize_text"} :
            /\ ~HasRaised(call)
            /\ HasReturned(call) => pure_results[call].value = <<>>

\* C16: generate_ngrams raises ValueError for every window size n <= 0,
\* whatever the text, and raises nothing for n >= 1.
C16_ValueErrorIffNotPositive ==
    HasReturned("generate_ngrams") \/ HasRaised("generate_ngrams") =>
        /\ pure_args.n <= 0 <=> HasRaised("generate_ngrams")
        /\ pure_args.n >= 1 <=> HasReturned("generate_ngrams")
        /\ HasRaised("generate_ngrams") => pure_results.generate_ngrams.error = "ValueError"

\* the window 0 on a text of four words
C16_Witness ==
    /\ HasRaised("generate_ngrams")
    /\ pure_args.n = 0
    /\ pure_args.text = <<"a", " ", "b", " ", "c", " ", "d">>

====
